---- MODULE Spec2Model ----
(***************************************************************************)
(* Model of the ScoreFall engraving core: exact Fraction arithmetic        *)
(* (scof/src/fraction.rs), the Scof document with its Cursor and splice    *)
(* operations (scof/src/lib.rs), the Program command layer                *)
(* (ink/src/lib.rs, src/lib.rs), and the engraving of a measure: Notator,  *)
(* Beams and BarEngraver (staverator/src).                                 *)
(*                                                                         *)
(* Indices are 0-based as in the source; sequences are 1-based, so the     *)
(* element at source index i is s[i + 1].                                  *)
(***************************************************************************)
EXTENDS Integers, Sequences, FiniteSets, TLC

VARIABLES
    scof,             \* Scof.movement: Seq of movements; a movement is its bar list
    cursor,           \* the Cursor the commands act through
    panicked,         \* TRUE once an unwrap/assert/overflow check has aborted
    overflow_checks,  \* build profile: arithmetic overflow panics (debug) or wraps
    last,             \* the command that produced this state, with its outcome
    rl,               \* progress of a right-then-left pair of cursor moves
    fa, fb,           \* Fraction operands
    fr,               \* result of the last Fraction operation
    notator,          \* the Notator of the stave being engraved
    beams,            \* the Beams of the stave being engraved
    engraver          \* BarEngraver: its queue entry, and what has been emitted

vars == <<scof, cursor, panicked, overflow_checks, last, rl, fa, fb, fr,
          notator, beams, engraver>>

-----------------------------------------------------------------------------
(* Machine integers *)

U16 == 65536
I16Half == 32768
Byte == 2 ^ 8

\* Integers here are kept below 2^31, so a 32-bit product of two
\* 16-bit values is kept as its high and low 16-bit halves.
MulHi(a, b) == ((a \div Byte) * b + ((a % Byte) * b) \div Byte) \div Byte
MulLo(a, b) == ((((a \div Byte) * b) % Byte) * Byte + (a % Byte) * b) % U16

-----------------------------------------------------------------------------
(* Fraction (scof/src/fraction.rs) *)

Frac(n, d) == [num |-> n, den |-> d]

\* The value standing for "the operation panicked, no Fraction was produced".
FracPanic == [num |-> -1, den |-> -1]

\* Option::None / Err(()) of the operations that return an Option or Result.
None == [kind |-> "None"]

RECURSIVE gcd_loop(_, _)
gcd_loop(a, b) ==
    LET a1 == a % b IN
    IF a1 = 0 THEN b
    ELSE LET b1 == b % a1 IN
         IF b1 = 0 THEN a1 ELSE gcd_loop(a1, b1)

\* Iterative Greatest Common Divisor, zero-aware.
gcd_i(a, b) ==
    IF a = 0 THEN b
    ELSE IF b = 0 THEN a
    ELSE gcd_loop(a, b)

\* Fraction::new: assert_ne!(den, 0).
FracNew(n, d) == IF d = 0 THEN FracPanic ELSE Frac(n, d)

\* Fraction::recip
FracRecip(a) == Frac(a.den, a.num)

\* Fraction::simplify: divides by gcd_i; 0/0 divides by zero.
FracSimplify(a) ==
    LET Reduced(g) == IF g = 0 THEN FracPanic ELSE Frac(a.num \div g, a.den \div g)
    IN Reduced(gcd_i(a.num, a.den))

\* impl Mul for Fraction: u32 products (below 2^31 for the operands
\* FracOperands holds), reduced, narrowed with unwrap_or(0).
FracMul(a, b) ==
    LET Reduced(num, den, g) ==
            IF g = 0 THEN FracPanic
            ELSE Frac(IF num \div g < U16 THEN num \div g ELSE 0,
                      IF den \div g < U16 THEN den \div g ELSE 0)
    IN Reduced(a.num * b.num, a.den * b.den, gcd_i(a.num * b.num, a.den * b.den))

\* impl Div for Fraction
FracDiv(a, b) == FracMul(a, FracRecip(b))

\* The (self_mul, other_mul, den) alignment shared by add and sub; the
\* products are u16.  ovf: the u16 product self.den * other.den overflowed.
Align(a, b) ==
    IF a.den % b.den = 0 THEN [sm |-> 1, om |-> a.den \div b.den, den |-> a.den, ovf |-> FALSE]
    ELSE IF b.den % a.den = 0 THEN [sm |-> b.den \div a.den, om |-> 1, den |-> b.den, ovf |-> FALSE]
    ELSE [sm |-> b.den, om |-> a.den, den |-> (a.den * b.den) % U16,
          ovf |-> a.den * b.den >= U16]

\* An add that stores the aligned sum as it is, without dividing by the GCD.
FracAdd_unreduced(a, b) ==
    IF a.num = 0 THEN b
    ELSE LET Sum(al) ==
                 IF overflow_checks /\ al.ovf THEN FracPanic
                 ELSE IF a.num * al.sm + b.num * al.om >= U16 THEN FracPanic
                 ELSE Frac(a.num * al.sm + b.num * al.om, al.den)
         IN Sum(Align(a, b))

\* impl Add for Fraction: zero shortcut, u16 denominator, u32 numerator
\* (which stays below 2^31 for the operands FracOperands holds).
FracAdd(a, b) ==
    IF a.num = 0 THEN b
    ELSE IF b.den = 0 THEN FracPanic
    ELSE LET Reduced(al, num, g) ==
                 IF overflow_checks /\ al.ovf THEN FracPanic
                 ELSE IF g = 0 THEN FracPanic
                 ELSE IF num \div g >= U16 \/ al.den \div g >= U16 THEN FracPanic
                 ELSE Frac(num \div g, al.den \div g)
             Sum(al) == Reduced(al, a.num * al.sm + b.num * al.om,
                                gcd_i(a.num * al.sm + b.num * al.om, al.den))
         IN Sum(Align(a, b))

\* impl Sub for Fraction: everything in u16.
FracSub(a, b) ==
    IF b.den = 0 THEN FracPanic
    ELSE LET Reduced(al, ovf, num, g) ==
                 IF overflow_checks /\ ovf THEN FracPanic
                 ELSE IF g = 0 THEN FracPanic
                 ELSE Frac(num \div g, al.den \div g)
             Diff(al, l, r) ==
                 Reduced(al,
                         al.ovf \/ l >= U16 \/ r >= U16 \/ (l % U16) < (r % U16),
                         ((l % U16) - (r % U16)) % U16,
                         gcd_i(((l % U16) - (r % U16)) % U16, al.den))
             Aligned(al) == Diff(al, a.num * al.sm, b.num * al.om)
         IN Aligned(Align(a, b))

\* impl PartialEq for Fraction: compares the simplified forms.
FracEq(a, b) ==
    LET Same(simple, other_simple) ==
            simple.den = other_simple.den /\ simple.num = other_simple.num
    IN Same(FracSimplify(a), FracSimplify(b))

\* impl PartialOrd for Fraction: sign of the i32 difference of the cross
\* products num * other.den and other.num * den (as i32).  The halves are
\* those of the wrapped values; "panic" when a product or the difference
\* overflows i32 under overflow checks.
FracCmp(a, b) ==
    LET Signed(h) == IF h >= I16Half THEN h - U16 ELSE h
        Sign(dh, wdh, dl, ovf) ==
            IF overflow_checks /\ (ovf \/ dh # wdh) THEN "panic"
            ELSE IF wdh < 0 THEN "lt" ELSE IF wdh = 0 /\ dl = 0 THEN "eq" ELSE "gt"
        Diff(sh, sl, oh, ol, dh) ==
            Sign(dh, ((dh + I16Half) % U16) - I16Half, (sl - ol) % U16,
                 sh >= I16Half \/ oh >= I16Half)
        Cross(sh, sl, oh, ol) ==
            Diff(sh, sl, oh, ol, Signed(sh) - Signed(oh) - (IF sl < ol THEN 1 ELSE 0))
    IN Cross(MulHi(a.num, b.den), MulLo(a.num, b.den),
             MulHi(b.num, a.den), MulLo(b.num, a.den))

FracGt(a, b) == FracCmp(a, b) = "gt"

-----------------------------------------------------------------------------
(* Text parsing.  A text is a sequence of one-character strings. *)

DigitOf == ("0" :> 0) @@ ("1" :> 1) @@ ("2" :> 2) @@ ("3" :> 3) @@ ("4" :> 4)
           @@ ("5" :> 5) @@ ("6" :> 6) @@ ("7" :> 7) @@ ("8" :> 8) @@ ("9" :> 9)

RECURSIVE DigitsVal(_, _)
DigitsVal(p, acc) ==
    IF p = <<>> THEN acc
    ELSE IF Head(p) \notin DOMAIN DigitOf THEN -1
    ELSE LET v == acc * 10 + DigitOf[Head(p)] IN
         IF v >= U16 THEN -1 ELSE DigitsVal(Tail(p), v)

\* str::parse::<u16>: an optional '+', then at least one digit, no
\* overflow; -1 stands for Err.
ParseU16(p) ==
    LET q == IF p # <<>> /\ Head(p) = "+" THEN Tail(p) ELSE p IN
    IF q = <<>> THEN -1 ELSE DigitsVal(q, 0)

\* str::split('/'): the pieces between the separators.
RECURSIVE SplitSlash(_, _, _)
SplitSlash(s, cur, acc) ==
    IF s = <<>> THEN Append(acc, cur)
    ELSE IF Head(s) = "/" THEN SplitSlash(Tail(s), <<>>, Append(acc, cur))
    ELSE SplitSlash(Tail(s), Append(cur, Head(s)), acc)

\* impl FromStr for Fraction: "num/den", no check on den.
FracFromStr(s) ==
    LET it == SplitSlash(s, <<>>, <<>>) IN
    IF ParseU16(it[1]) < 0 THEN None
    ELSE IF Len(it) < 2 THEN None
    ELSE IF ParseU16(it[2]) < 0 THEN None
    ELSE IF Len(it) > 2 THEN None
    ELSE Frac(ParseU16(it[1]), ParseU16(it[2]))

-----------------------------------------------------------------------------
(* Pitch and Note (scof/src/note) *)

\* enum PitchName { C = 0, D = 1, E = 2, F = 3, G = 4, A = 5, B = 6 }
PitchNameOf == ("C" :> 0) @@ ("D" :> 1) @@ ("E" :> 2) @@ ("F" :> 3)
               @@ ("G" :> 4) @@ ("A" :> 5) @@ ("B" :> 6)

\* impl FromStr for PitchOctave: '-' is octave -1.
OctaveOf == ("-" :> -1) @@ DigitOf

\* impl FromStr for Articulation
ArticulationOf == ("'" :> "Staccatissimo") @@ ("." :> "Staccato") @@ ("_" :> "Tenuto")
                  @@ ("^" :> "Marcato") @@ (">" :> "Accent") @@ ("+" :> "Mute")
                  @@ ("o" :> "Open") @@ ("@" :> "Harmonic") @@ ("|" :> "Pedal")

\* Pitch(PitchClass { name, accidental }, PitchOctave)
Pitch(n, a, o) == [name |-> n, accidental |-> a, octave |-> o]

\* Marking::Note(Note { pitch, duration, articulation })
Note(p, d, a) == [kind |-> "Note", pitch |-> p, duration |-> d, articulation |-> a]

IsNote(m) == m.kind = "Note"

\* impl FromStr for Pitch: all but the last character is the pitch class
\* (a bare name; accidentals are not parsed), the last is the octave.
PitchFromStr(s) ==
    IF Len(s) # 2 \/ s[1] \notin DOMAIN PitchNameOf \/ s[2] \notin DOMAIN OctaveOf
    THEN None
    ELSE Pitch(PitchNameOf[s[1]], "None", OctaveOf[s[2]])

\* Index (1-based) of the first character of s at or after position i that
\* is in set, or 0.
RECURSIVE FindFrom(_, _, _)
FindFrom(s, i, set) ==
    IF i > Len(s) THEN 0
    ELSE IF s[i] \in set THEN i ELSE FindFrom(s, i + 1, set)

NoteLetters == DOMAIN PitchNameOf \cup {"R"}

\* The 'note_pitches loop of Note::from_str from 0-based offset e:
\* [pitch, end] or None on a parse error.
RECURSIVE ReadPitches(_, _, _)
ReadPitches(s, e, pitch) ==
    LET text == SubSeq(s, e + 1, Len(s)) IN
    IF text = <<>> THEN [pitch |-> pitch, end |-> e]
    ELSE IF text = <<"R">> THEN [pitch |-> pitch, end |-> e + 1]
    ELSE IF text[1] \notin NoteLetters THEN [pitch |-> pitch, end |-> e]
    ELSE LET o == FindFrom(s, e + 1, DOMAIN OctaveOf) IN
         IF o = 0 THEN None
         ELSE LET p == PitchFromStr(SubSeq(s, e + 1, o)) IN
              IF p = None THEN None ELSE ReadPitches(s, o, Append(pitch, p))

\* impl FromStr for Note (and for Marking): <duration><pitches|R><articulation*>
NoteFromStr(s) ==
    LET e == FindFrom(s, 1, NoteLetters) IN
    IF e = 0 THEN None
    ELSE LET duration == FracFromStr(SubSeq(s, 1, e - 1))
             rp       == ReadPitches(s, e - 1, <<>>)
         IN IF duration = None \/ rp = None THEN None
            ELSE IF \E k \in rp.end + 1 .. Len(s) : s[k] \notin DOMAIN ArticulationOf
                 THEN None
            ELSE Note(rp.pitch, duration,
                      [k \in 1 .. Len(s) - rp.end |-> ArticulationOf[s[rp.end + k]]])

\* "1/1R".parse().unwrap(): the explicit whole-measure rest.
WholeRest == NoteFromStr(<<"1", "/", "1", "R">>)

\* "1/1C4".parse().unwrap()
WholeC4 == NoteFromStr(<<"1", "/", "1", "C", "4">>)

\* Pitch::visual_distance: steps from middle C.
visual_distance(p) == p.name + (p.octave - 4) * 7

-----------------------------------------------------------------------------
(* Note editing (scof/src/note/mod.rs) *)

\* Variant of Note::set_pitch that always appends.
NoteSetPitch_push(note, i, pitch) == [note EXCEPT !.pitch = Append(@, pitch)]

\* Note::set_pitch: append at i = len, overwrite below; None stands for the
\* failed assert_eq! when i > len.
NoteSetPitch(note, i, pitch) ==
    IF i >= Len(note.pitch)
    THEN IF Len(note.pitch) # i THEN None
         ELSE [note EXCEPT !.pitch = Append(@, pitch)]
    ELSE [note EXCEPT !.pitch[i + 1] = pitch]

\* PitchOctave::raise / PitchOctave::lower: the Option as a set, empty
\* (None) outside -1..9.
raise(o) == IF o = 9 THEN {} ELSE {o + 1}
lower(o) == IF o = -1 THEN {} ELSE {o - 1}

\* A step up that goes from B to C without raising the octave.
PitchStepUp_same_octave(p) == Pitch((p.name + 1) % 7, p.accidental, p.octave)

\* The closure of Note::step_up: next name, octave raised from B to C,
\* the pitch unchanged when the octave cannot be raised.
PitchStepUp(p) ==
    LET offset == p.name = 6
        pitch_octave == IF offset THEN raise(p.octave) ELSE {p.octave}
    IN IF pitch_octave = {} THEN p
       ELSE Pitch((p.name + 1) % 7, p.accidental,
                  CHOOSE o \in pitch_octave : TRUE)

\* The closure of Note::step_down.
PitchStepDown(p) ==
    LET offset == p.name = 0
        pitch_octave == IF offset THEN lower(p.octave) ELSE {p.octave}
    IN IF pitch_octave = {} THEN p
       ELSE Pitch((p.name + 6) % 7, p.accidental,
                  CHOOSE o \in pitch_octave : TRUE)

\* Note::move_step with the step_up / step_down closure: pitch i is
\* stepped when present, else the chord is resized to i + 1 with create.
NoteMoveStep(note, i, create, up) ==
    IF i < Len(note.pitch)
    THEN [note EXCEPT !.pitch[i + 1] = IF up THEN PitchStepUp(@) ELSE PitchStepDown(@)]
    ELSE [note EXCEPT !.pitch =
            [k \in 1 .. i + 1 |-> IF k <= Len(note.pitch) THEN note.pitch[k] ELSE create]]

-----------------------------------------------------------------------------
(* Cursor and Scof (scof/src/lib.rs) *)

Cursor(mv, me, ch, mk) == [movement |-> mv, measure |-> me, chan |-> ch, marking |-> mk]

\* The lookup chain of Scof::chan_notes_mut succeeds.
ChanExists(s, c) ==
    /\ c.movement < Len(s)
    /\ c.measure < Len(s[c.movement + 1])
    /\ c.chan < Len(s[c.movement + 1][c.measure + 1])

\* Scof::chan_notes_mut, where it exists.
chan_notes(s, c) == s[c.movement + 1][c.measure + 1][c.chan + 1]

\* Writing through the reference chan_notes_mut returns.
SetNotes(s, c, notes) == [s EXCEPT ![c.movement + 1][c.measure + 1][c.chan + 1] = notes]

\* Scof::marking: the four-level lookup, None when any index is out of range.
marking(s, c) ==
    IF ChanExists(s, c) /\ c.marking < Len(chan_notes(s, c))
    THEN chan_notes(s, c)[c.marking + 1]
    ELSE None

\* Scof::marking_len: probe marking 0, 1, ... until the lookup fails.
RECURSIVE MarkingLenFrom(_, _)
MarkingLenFrom(s, curs) ==
    IF marking(s, curs) # None
    THEN MarkingLenFrom(s, [curs EXCEPT !.marking = @ + 1])
    ELSE curs.marking

marking_len(s, c) == MarkingLenFrom(s, [c EXCEPT !.marking = 0])

\* Scof::note
note_at(s, c) ==
    LET m == marking(s, c) IN
    IF m # None /\ IsNote(m) THEN m ELSE None

\* Variant of Cursor::left that enters the previous measure at its first
\* marking.
CursorLeft_first(c, s) ==
    IF c.marking > 0 THEN [c EXCEPT !.marking = @ - 1]
    ELSE IF c.measure # 0 THEN [c EXCEPT !.measure = @ - 1, !.marking = 0]
    ELSE c

\* Variant of Cursor::left that never leaves the measure.
CursorLeft_stay(c, s) ==
    IF c.marking > 0 THEN [c EXCEPT !.marking = @ - 1] ELSE c

\* Cursor::left
CursorLeft(c, s) ==
    LET AtEnd(c1, len) == [c1 EXCEPT !.marking = IF len > 0 THEN len - 1 ELSE 0]
        Back(c1) == AtEnd(c1, marking_len(s, c1))
    IN IF c.marking > 0 THEN [c EXCEPT !.marking = @ - 1]
       ELSE IF c.measure # 0 THEN Back([c EXCEPT !.measure = @ - 1])
       ELSE c

\* Cursor::right_checked: TRUE when the measure has ended.
right_checked(c, s) == ~(c.marking + 1 < marking_len(s, c))

\* Cursor::right
CursorRight(c, s) ==
    IF right_checked(c, s)
    THEN [c EXCEPT !.measure = @ + 1, !.marking = 0]
    ELSE [c EXCEPT !.marking = @ + 1]

\* Variant of new_measure that pushes a measure of a single channel.
new_measure_single(s) ==
    IF Len(s) > 0 /\ Len(s[1]) > 0 THEN [s EXCEPT ![1] = Append(@, << <<>> >>)] ELSE s

\* Scof::new_measure: push onto movement 0 a measure with as many empty
\* channels as its last measure has.
new_measure(s) ==
    IF Len(s) > 0 /\ Len(s[1]) > 0
    THEN LET last_bar == s[1][Len(s[1])] IN
         [s EXCEPT ![1] = Append(@, [k \in 1 .. Len(last_bar) |-> <<>>])]
    ELSE s

\* Vec::insert at 0-based index i.
VecInsert(v, i, x) == SubSeq(v, 1, i) \o <<x>> \o SubSeq(v, i + 1, Len(v))

\* Variant of Scof::set_pitch that returns quietly where the original
\* aborts.
set_pitch_quiet(s, c, i, pitch) ==
    LET Write(n) ==
            IF n = None THEN s
            ELSE SetNotes(s, c, [chan_notes(s, c) EXCEPT ![c.marking + 1] = n])
        Found(old_note) ==
            IF old_note = None THEN s ELSE Write(NoteSetPitch(old_note, i, pitch))
    IN [scof |-> Found(note_at(s, c)), panic |-> FALSE]

\* Scof::set_pitch: [scof, panic]; the unwrap of note() and the assert of
\* Note::set_pitch abort before anything is written.
set_pitch(s, c, i, pitch) ==
    LET Write(n) ==
            IF n = None THEN [scof |-> s, panic |-> TRUE]
            ELSE [scof |-> SetNotes(s, c, [chan_notes(s, c) EXCEPT ![c.marking + 1] = n]),
                  panic |-> FALSE]
        Found(old_note) ==
            IF old_note = None THEN [scof |-> s, panic |-> TRUE]
            ELSE Write(NoteSetPitch(old_note, i, pitch))
    IN Found(note_at(s, c))

\* Variant of Fitted that keeps the whole duration.
Fitted_whole(n, quota) == n

\* Variant of Fitted that keeps the part that did not fit.
Fitted_rest(n, quota) == [n EXCEPT !.duration = quota]

\* `note.duration -= quota` at the end of the measure: the note keeps the
\* part of its duration that fitted.
Fitted(n, quota) == [n EXCEPT !.duration = FracSub(n.duration, quota)]

\* The loop of Scof::set_part_measure over the markings left after the
\* drain of the first b: [notes, rem, panic].
RECURSIVE PartLoop(_, _, _, _, _)
PartLoop(notes, i, quota, n, new_notes) ==
    LET End(fit) ==
            [notes |-> Append(new_notes, fit),
             rem |-> quota, panic |-> fit.duration = FracPanic]
        Panic == [notes |-> notes, rem |-> None, panic |-> TRUE]
        More(q) ==
            IF q = FracPanic THEN Panic ELSE PartLoop(notes, i + 1, q, n, new_notes)
        Split(m, d) ==
            [notes |-> new_notes \o <<n, [m EXCEPT !.duration = d]>>
                          \o SubSeq(notes, i + 2, Len(notes)),
             rem |-> None, panic |-> d = FracPanic]
        Visit(m, cmp) ==
            IF cmp = "panic" THEN Panic
            ELSE IF cmp = "gt" THEN More(FracSub(quota, m.duration))
            ELSE IF FracEq(quota, m.duration)
                 THEN [notes |-> new_notes \o <<n>> \o SubSeq(notes, i + 2, Len(notes)),
                       rem |-> None, panic |-> FALSE]
            ELSE Split(m, FracSub(m.duration, quota))
    IN IF i = Len(notes) THEN End(Fitted(n, quota))
       ELSE IF ~IsNote(notes[i + 1]) THEN PartLoop(notes, i + 1, quota, n, new_notes)
       ELSE Visit(notes[i + 1], FracCmp(quota, notes[i + 1].duration))

\* Variant of set_part_measure that splices from the start of the channel
\* wherever the cursor is.
set_part_measure_from_start(s, c, n) ==
    IF ~ChanExists(s, c) \/ c.marking > Len(chan_notes(s, c))
    THEN [scof |-> s, rem |-> None, panic |-> TRUE]
    ELSE LET Written(r) ==
                 [scof |-> SetNotes(s, c, r.notes), rem |-> r.rem, panic |-> r.panic]
         IN Written(PartLoop(chan_notes(s, c), 0, n.duration, n, <<>>))

\* Scof::set_part_measure: [scof, rem, panic]; rem is the fraction that
\* does not fit in the measure, or None.  A panic inside the loop comes
\* after the first b markings were drained out of the channel.
set_part_measure(s, c, n) ==
    LET Written(notes, b, r) ==
            [scof |-> IF r.panic THEN SetNotes(s, c, SubSeq(notes, b + 1, Len(notes)))
                      ELSE SetNotes(s, c, r.notes),
             rem |-> r.rem, panic |-> r.panic]
        Splice(notes, b) ==
            Written(notes, b,
                    PartLoop(SubSeq(notes, b + 1, Len(notes)), 0, n.duration, n,
                             SubSeq(notes, 1, b)))
    IN IF ~ChanExists(s, c) \/ c.marking > Len(chan_notes(s, c))
       THEN [scof |-> s, rem |-> None, panic |-> TRUE]
       ELSE Splice(chan_notes(s, c), c.marking)

\* Scof::set_full_measure
set_full_measure(s, c, n) == set_part_measure(s, [c EXCEPT !.marking = 0], n)

\* Scof::set_empty_measure: push the explicit whole rest, then splice.
set_empty_measure(s, c, n) ==
    IF ~ChanExists(s, c) THEN [scof |-> s, rem |-> None, panic |-> TRUE]
    ELSE set_full_measure(SetNotes(s, c, Append(chan_notes(s, c), WholeRest)), c, n)

\* Scof::set_whole_pitch
set_whole_pitch(s, c) ==
    IF ~ChanExists(s, c) THEN [scof |-> s, panic |-> TRUE]
    ELSE [scof |-> SetNotes(s, c, Append(chan_notes(s, c), WholeC4)), panic |-> FALSE]

\* Scof::set_whole_duration: the remainder set_empty_measure returns is dropped.
set_whole_duration(s, c, dur) ==
    LET Dropped(r) == [scof |-> r.scof, panic |-> r.panic]
    IN Dropped(set_empty_measure(s, c, Note(<<>>, dur, <<>>)))

\* Variant of insert_after that inserts nothing.
insert_after_nothing(s, c, m) == s

\* Variant of insert_after that inserts at the cursor instead of after it.
insert_after_at_cursor(s, c, m) ==
    IF ~ChanExists(s, c) THEN s
    ELSE SetNotes(s, c, VecInsert(chan_notes(s, c), c.marking, m))

\* Scof::insert_after: None (s unchanged) when the channel does not exist.
insert_after(s, c, m) ==
    IF ~ChanExists(s, c) THEN s
    ELSE SetNotes(s, c, VecInsert(chan_notes(s, c), c.marking + 1, m))

\* The fill-forward loop of Scof::set_duration: splice, and while a
\* remainder comes back move to the next measure, call new_measure, make the
\* measure's rest explicit and go on with the remainder.
\* spill counts the measures entered.
RECURSIVE FillForward(_, _, _, _)
FillForward(s, c, n, spill) ==
    LET Explicit(s1, c1) ==
            IF chan_notes(s1, c1) = <<>> THEN SetNotes(s1, c1, <<WholeRest>>) ELSE s1
        Enter(s1, c1, rem) ==
            IF ~ChanExists(s1, c1) THEN [scof |-> s1, panic |-> TRUE, spill |-> spill]
            ELSE FillForward(Explicit(s1, c1), c1, [n EXCEPT !.duration = rem], spill + 1)
        Spliced(r) ==
            IF r.panic THEN [scof |-> r.scof, panic |-> TRUE, spill |-> spill]
            ELSE IF r.rem = None THEN [scof |-> r.scof, panic |-> FALSE, spill |-> spill]
            ELSE Enter(new_measure(r.scof), [c EXCEPT !.measure = @ + 1, !.marking = 0],
                       r.rem)
    IN Spliced(set_part_measure(s, c, n))

\* Scof::set_duration: [scof, panic, kind, spill].
set_duration(s, c, dur) ==
    LET Abort == [scof |-> s, panic |-> TRUE, kind |-> "abort", spill |-> 0]
        Filled(r) == [scof |-> r.scof, panic |-> r.panic, kind |-> "fill", spill |-> r.spill]
        Shortened(n, s1) ==
            [scof |-> SetNotes(s1, c, [chan_notes(s1, c) EXCEPT ![c.marking + 1] = n]),
             panic |-> FALSE, kind |-> "shorten", spill |-> 0]
        Shorten(n, rests) ==
            IF rests = FracPanic THEN Abort
            ELSE Shortened(n, insert_after(s, c, Note(<<>>, rests, <<>>)))
        Set(old_note, cmp) ==
            IF cmp = "panic" THEN Abort
            ELSE IF cmp = "gt"
            THEN Shorten([old_note EXCEPT !.duration = dur], FracSub(old_note.duration, dur))
            ELSE Filled(FillForward(s, c, [old_note EXCEPT !.duration = dur], 0))
        Found(old_note) ==
            IF old_note = None THEN Abort
            ELSE Set(old_note, FracCmp(old_note.duration, dur))
    IN Found(note_at(s, c))

-----------------------------------------------------------------------------
(* Bounds of the model *)

\* Measures a movement may grow to.
MaxMeasures == 3
\* Markings the whole document may grow to.
MaxNotes == 2
\* Pitches the notes of the whole document may grow to.
MaxPitches == 2
\* Of the nine duration keys, how many are pressed, counted down from
\* key 9 (4/1).
LongestKeys == 4
\* Distances from middle C a pitch may be stepped to.
StepRange == 0 .. 1

\* Markings in a measure, a movement, the whole document.
RECURSIVE NotesInMeasure(_)
NotesInMeasure(me) == IF me = <<>> THEN 0 ELSE Len(Head(me)) + NotesInMeasure(Tail(me))

RECURSIVE NotesInMovement(_)
NotesInMovement(mv) ==
    IF mv = <<>> THEN 0 ELSE NotesInMeasure(Head(mv)) + NotesInMovement(Tail(mv))

RECURSIVE NotesIn(_)
NotesIn(s) == IF s = <<>> THEN 0 ELSE NotesInMovement(Head(s)) + NotesIn(Tail(s))

\* Pitches of the notes of a channel, a measure, a movement, the whole
\* document.
RECURSIVE PitchesInChannel(_)
PitchesInChannel(ch) ==
    IF ch = <<>> THEN 0 ELSE Len(Head(ch).pitch) + PitchesInChannel(Tail(ch))

RECURSIVE PitchesInMeasure(_)
PitchesInMeasure(me) ==
    IF me = <<>> THEN 0 ELSE PitchesInChannel(Head(me)) + PitchesInMeasure(Tail(me))

RECURSIVE PitchesInMovement(_)
PitchesInMovement(mv) ==
    IF mv = <<>> THEN 0 ELSE PitchesInMeasure(Head(mv)) + PitchesInMovement(Tail(mv))

RECURSIVE PitchesIn(_)
PitchesIn(s) == IF s = <<>> THEN 0 ELSE PitchesInMovement(Head(s)) + PitchesIn(Tail(s))

\* The document is within the bounds.
Within(s) ==
    /\ \A mv \in 1 .. Len(s) : Len(s[mv]) <= MaxMeasures
    /\ NotesIn(s) <= MaxNotes
    /\ PitchesIn(s) <= MaxPitches
    /\ \A mv \in 1 .. Len(s) : \A me \in 1 .. Len(s[mv]) : \A ch \in 1 .. Len(s[mv][me]) :
          \A k \in 1 .. Len(s[mv][me][ch]) : \A p \in 1 .. Len(s[mv][me][ch][k].pitch) :
                visual_distance(s[mv][me][ch][k].pitch[p]) \in StepRange

-----------------------------------------------------------------------------
(* Notator (staverator/src/notator.rs) *)

\* 128 128ths: the whole note Notator starts checking from.
Whole == 128

\* Notator::new
NotatorNew(curs) ==
    [curs |-> curs, dur |-> 0, check |-> Whole, pitch |-> <<>>, ic |-> FALSE]

\* What Notator::next returns: Some((pitch, dur, ic)), or a panic.
Token(pitch, dur, ic) == [kind |-> "Token", pitch |-> pitch, dur |-> dur, ic |-> ic]

Panic == [kind |-> "Panic"]

\* Cursor::right_unchecked
right_unchecked(c) == [c EXCEPT !.marking = @ + 1]

\* A next() that hands out the rest of the note in one token.
RECURSIVE NotatorNext_whole(_, _, _)
NotatorNext_whole(nt, s, user) ==
    IF nt.dur # 0
    THEN [nt |-> [nt EXCEPT !.dur = 0], item |-> Token(nt.pitch, nt.dur, nt.ic)]
    ELSE IF marking(s, nt.curs) = None THEN [nt |-> nt, item |-> None]
    ELSE IF marking(s, nt.curs).duration.num >= 512 THEN [nt |-> nt, item |-> Panic]
    ELSE NotatorNext_whole(
             [curs  |-> right_unchecked(nt.curs),
              dur   |-> (marking(s, nt.curs).duration.num * Whole)
                            \div marking(s, nt.curs).duration.den,
              check |-> Whole,
              pitch |-> marking(s, nt.curs).pitch,
              ic    |-> nt.curs = user], s, user)

\* A next() that rounds the note's duration up to the next 128th.
RECURSIVE NotatorNext_ceil(_, _, _)
NotatorNext_ceil(nt, s, user) ==
    IF nt.dur # 0
    THEN IF nt.dur >= nt.check
         THEN [nt |-> [nt EXCEPT !.dur = @ - nt.check],
               item |-> Token(nt.pitch, nt.check, nt.ic)]
         ELSE NotatorNext_ceil([nt EXCEPT !.check = @ \div 2], s, user)
    ELSE IF marking(s, nt.curs) = None THEN [nt |-> nt, item |-> None]
    ELSE IF marking(s, nt.curs).duration.num >= 512 THEN [nt |-> nt, item |-> Panic]
    ELSE NotatorNext_ceil(
             [curs  |-> right_unchecked(nt.curs),
              dur   |-> (marking(s, nt.curs).duration.num * Whole
                         + marking(s, nt.curs).duration.den - 1)
                            \div marking(s, nt.curs).duration.den,
              check |-> Whole,
              pitch |-> marking(s, nt.curs).pitch,
              ic    |-> nt.curs = user], s, user)

\* impl Iterator for Notator: next() on the Notator nt reading the Scof s,
\* user being the user's cursor.  Gives the Notator afterwards and the item.
RECURSIVE NotatorNext(_, _, _)
NotatorNext(nt, s, user) ==
    IF nt.dur # 0
    THEN IF nt.dur >= nt.check
         THEN [nt |-> [nt EXCEPT !.dur = @ - nt.check],
               item |-> Token(nt.pitch, nt.check, nt.ic)]
         ELSE NotatorNext([nt EXCEPT !.check = @ \div 2], s, user)
    ELSE LET Load(m) ==
                 IF m = None THEN [nt |-> nt, item |-> None]
                 ELSE IF ~IsNote(m) THEN [nt |-> nt, item |-> Panic]
                 ELSE IF m.duration.den = 0 THEN [nt |-> nt, item |-> Panic]
                 ELSE IF (m.duration.num * Whole) \div m.duration.den >= U16
                      THEN [nt |-> nt, item |-> Panic]
                 ELSE NotatorNext(
                          [curs  |-> right_unchecked(nt.curs),
                           dur   |-> (m.duration.num * Whole) \div m.duration.den,
                           check |-> Whole,
                           pitch |-> m.pitch,
                           ic    |-> nt.curs = user], s, user)
         IN Load(marking(s, nt.curs))

\* Notator::is_cursor
is_cursor(nt, user) == nt.curs = user

-----------------------------------------------------------------------------
(* Beams (staverator/src/beaming.rs) *)

\* 4/4 time signature beaming rules, in 128ths.
BEAMRULE_4_4 == [eighth |-> 64, sixteenth |-> 32, inner |-> 16]

\* Beams::new
BeamsNew ==
    [dur |-> Whole, short |-> <<>>, last_short |-> FALSE, min_dur |-> 0,
     notes |-> <<>>, queued |-> None]

\* The y argument of advance for a pitched token: Some((pitches, y_offset)).
SomeY(pitches, y_offset) == [pitches |-> pitches, y_offset |-> y_offset]

\* An entry of Beams.short: (BeamProp, dur, width, y).
ShortEntry(prop, dur, width, y) == [prop |-> prop, dur |-> dur, width |-> width, y |-> y]

\* A BeamProp that continues across whatever came before in the bucket.
PropOf_always(b, new_dur) ==
    IF b.short # <<>> /\ b.dur \div BEAMRULE_4_4.eighth = new_dur \div BEAMRULE_4_4.eighth
    THEN "ContinueEighth"
    ELSE "Flag"

\* The BeamProp of a short pitched token that goes from b.dur to new_dur.
PropOf(b, new_dur) ==
    IF b.last_short /\ b.dur \div BEAMRULE_4_4.eighth = new_dur \div BEAMRULE_4_4.eighth
    THEN IF b.dur \div BEAMRULE_4_4.sixteenth = new_dur \div BEAMRULE_4_4.sixteenth
         THEN IF b.dur \div BEAMRULE_4_4.inner = new_dur \div BEAMRULE_4_4.inner
              THEN "ContinueInner"
              ELSE "ContinueSixteenth"
         ELSE "ContinueEighth"
    ELSE "Flag"

\* The short queue after the last entry lost its Flag (pop_back, push_back).
Unflagged(short) ==
    [short EXCEPT ![Len(short)].prop = IF @ = "Flag" THEN "None" ELSE @]

\* An advance under which no token continues a beam.
BeamsAdvance_flags(b, dur, width, y) ==
    IF y # None /\ dur < 32
    THEN [b EXCEPT !.short = Append(@, ShortEntry("Flag", dur, width, y)),
                   !.last_short = TRUE, !.dur = (b.dur - dur) % U16]
    ELSE [b EXCEPT !.last_short = FALSE, !.dur = (b.dur - dur) % U16]

\* An advance that queues every token shorter than a quarter note, rests
\* as well.
BeamsAdvance_rests(b, dur, width, y) ==
    IF dur < 32
    THEN [b EXCEPT !.short = Append(IF PropOf(b, (b.dur - dur) % U16) = "Flag" THEN @
                                    ELSE Unflagged(@),
                                    ShortEntry(PropOf(b, (b.dur - dur) % U16), dur, width,
                                               IF y = None THEN SomeY(<<>>, 0) ELSE y)),
                   !.last_short = TRUE, !.dur = (b.dur - dur) % U16]
    ELSE [b EXCEPT !.last_short = FALSE, !.dur = (b.dur - dur) % U16]

\* An advance under which a rest or a long note does not end the run of
\* short notes.
BeamsAdvance_sticky(b, dur, width, y) ==
    IF y # None /\ dur < 32
    THEN [b EXCEPT !.short = Append(IF PropOf(b, (b.dur - dur) % U16) = "Flag" THEN @
                                    ELSE Unflagged(@),
                                    ShortEntry(PropOf(b, (b.dur - dur) % U16), dur, width, y)),
                   !.last_short = TRUE, !.dur = (b.dur - dur) % U16]
    ELSE [b EXCEPT !.dur = (b.dur - dur) % U16]

\* Beams::advance: the Beams afterwards, or Panic.  new_dur is u16.
BeamsAdvance(b, dur, width, y) ==
    LET Advanced(new_dur) ==
            IF y # None /\ dur < 32
            THEN IF PropOf(b, new_dur) = "Flag"
                 THEN [b EXCEPT !.short = Append(@, ShortEntry("Flag", dur, width, y)),
                                !.last_short = TRUE, !.dur = new_dur]
                 ELSE IF b.short = <<>> THEN Panic
                 ELSE [b EXCEPT !.short = Append(Unflagged(@),
                                                 ShortEntry(PropOf(b, new_dur), dur, width, y)),
                                !.last_short = TRUE, !.dur = new_dur]
            ELSE [b EXCEPT !.last_short = FALSE, !.dur = new_dur]
    IN IF b.dur < dur /\ overflow_checks THEN Panic
       ELSE Advanced((b.dur - dur) % U16)

\* An entry of Beams.notes: (dur, width, y, single beam point).
BeamNote(dur, width, y, single) == [dur |-> dur, width |-> width, y |-> y, single |-> single]

\* The vote of Beam::new over the first pitches of the notes.
RECURSIVE StemVote(_)
StemVote(notes) ==
    IF notes = <<>> THEN 0
    ELSE (IF visual_distance(Head(notes).y.pitches[1]) > 0 THEN 1
          ELSE IF visual_distance(Head(notes).y.pitches[1]) < 0 THEN -1 ELSE 0)
         + StemVote(Tail(notes))

\* Short::Beam(Beam { notes, stems_up })
Beam(notes, stems_up) == [kind |-> "Beam", notes |-> notes, stems_up |-> stems_up]

\* Short::Flag(dur, width, y)
Flag(dur, width, y) == [kind |-> "Flag", dur |-> dur, width |-> width, y |-> y]

\* The members Beam::new keeps: the first pitch of each note.
BeamMembers(b) ==
    [k \in 1 .. Len(b.notes) |->
        [dur |-> b.notes[k].dur, width |-> b.notes[k].width,
         pitch |-> b.notes[k].y.pitches[1], y_offset |-> b.notes[k].y.y_offset,
         one_beam |-> b.notes[k].single /\ b.min_dur < 8]]

\* A Beam::new whose stems are up on a net positive vote.
BeamNew_positive(b) ==
    IF \E k \in 1 .. Len(b.notes) : b.notes[k].y.pitches = <<>> THEN Panic
    ELSE Beam(BeamMembers(b), StemVote(b.notes) > 0)

\* Beam::new: the Beam made of beams.notes (which it drains), or Panic
\* when a note has no pitch to index.
BeamNew(b) ==
    IF \E k \in 1 .. Len(b.notes) : b.notes[k].y.pitches = <<>> THEN Panic
    ELSE Beam(BeamMembers(b), StemVote(b.notes) < 0)

\* A return of a Beam that forgets the Flag it was to queue.
Beamed_unqueued(b, beam, notes, min_dur, queued) ==
    IF beam = Panic THEN [b |-> b, item |-> Panic]
    ELSE [b |-> [b EXCEPT !.notes = notes, !.min_dur = min_dur, !.queued = None],
          item |-> beam]

\* What next() gives when it has made a Beam: the Beams with its notes
\* drained and then set as given.
Beamed(b, beam, notes, min_dur, queued) ==
    IF beam = Panic THEN [b |-> b, item |-> Panic]
    ELSE [b |-> [b EXCEPT !.notes = notes, !.min_dur = min_dur, !.queued = queued],
          item |-> beam]

\* impl Iterator for Beams: next() gives the Beams afterwards and the
\* item: a Flag, a Beam, None, or Panic.
RECURSIVE BeamsNext(_)
BeamsNext(b) ==
    IF b.queued # None THEN [b |-> [b EXCEPT !.queued = None], item |-> b.queued]
    ELSE IF b.short = <<>>
    THEN IF b.min_dur # 0 THEN Beamed(b, BeamNew(b), <<>>, 0, None)
         ELSE [b |-> b, item |-> None]
    ELSE LET Popped(e, rest) ==
                 CASE e.prop = "None" ->
                          IF rest.min_dur # 0
                          THEN Beamed(rest, BeamNew(rest),
                                      <<BeamNote(e.dur, e.width, e.y, FALSE)>>, e.dur, None)
                          ELSE BeamsNext([rest EXCEPT
                                   !.notes = Append(@, BeamNote(e.dur, e.width, e.y, FALSE)),
                                   !.min_dur = e.dur])
                   [] e.prop = "ContinueEighth" ->
                          IF rest.min_dur < 16
                          THEN Beamed(rest, BeamNew(rest),
                                      <<BeamNote(e.dur, e.width, e.y, FALSE)>>, e.dur, None)
                          ELSE BeamsNext([rest EXCEPT
                                   !.notes = Append(@, BeamNote(e.dur, e.width, e.y, FALSE)),
                                   !.min_dur = IF e.dur < @ THEN e.dur ELSE @])
                   [] e.prop = "ContinueSixteenth" ->
                          BeamsNext([rest EXCEPT
                              !.notes = Append(@, BeamNote(e.dur, e.width, e.y, TRUE)),
                              !.min_dur = IF e.dur < @ THEN e.dur ELSE @])
                   [] e.prop = "ContinueInner" ->
                          BeamsNext([rest EXCEPT
                              !.notes = Append(@, BeamNote(e.dur, e.width, e.y, FALSE)),
                              !.min_dur = IF e.dur < @ THEN e.dur ELSE @])
                   [] e.prop = "Flag" ->
                          IF rest.min_dur # 0
                          THEN Beamed(rest, BeamNew(rest), <<>>, 0,
                                      Flag(e.dur, e.width, e.y))
                          ELSE [b |-> [rest EXCEPT !.min_dur = 0],
                                item |-> Flag(e.dur, e.width, e.y)]
         IN Popped(Head(b.short), [b EXCEPT !.short = Tail(@)])

-----------------------------------------------------------------------------
(* BarEngraver (staverator/src/rhythmic_spacing.rs) and the elements of
   BarElem (staverator/src/lib.rs) *)

BAR_WIDTH == 2000

\* Stave::SPACE
SPACE == 250

\* Widths are f32 fractions of BAR_WIDTH in the source.  Here a width is an
\* exact integer count of WidthOne-ths: get_spacing is a multiple of
\* 1/8960 (tenths over band widths that all divide 896), and engrave
\* divides it by 7.
WidthOne == 7 * 8960

\* lerp(a, b, clamp(dur, min, max)) with a and b in tenths, in 8960ths.
Spacing(a, b, dur, min, max) == (896 * (a * (dur - min) + b * (max - dur))) \div (max - min)

\* get_spacing in 8960ths; -1 for its panic.
get_spacing(duration) ==
    IF duration \in 1 .. 7 THEN Spacing(18, 20, duration, 1, 8)
    ELSE IF duration \in 8 .. 15 THEN Spacing(20, 25, duration, 8, 16)
    ELSE IF duration \in 16 .. 23 THEN Spacing(25, 30, duration, 16, 24)
    ELSE IF duration \in 24 .. 31 THEN Spacing(30, 35, duration, 24, 32)
    ELSE IF duration \in 32 .. 47 THEN Spacing(35, 40, duration, 32, 48)
    ELSE IF duration \in 48 .. 63 THEN Spacing(40, 50, duration, 48, 64)
    ELSE IF duration \in 64 .. 95 THEN Spacing(50, 60, duration, 64, 96)
    ELSE IF duration \in 96 .. 127 THEN Spacing(60, 70, duration, 96, 128)
    ELSE IF duration \in 128 .. 255 THEN Spacing(70, 80, duration, 128, 256)
    ELSE IF duration \in 256 .. 383 THEN Spacing(80, 90, duration, 256, 384)
    ELSE IF duration \in 384 .. 511 THEN Spacing(90, 100, duration, 384, 512)
    ELSE IF duration = 512 THEN 896 * 100
    ELSE -1

\* Beginning (and end) of bar margin: Stave::SPACE / BAR_WIDTH.
BarMargin == (SPACE * WidthOne) \div BAR_WIDTH

\* BarEngraver::new over n notators: every stave queued with 128 128ths
\* remaining.  tokens and shorts record what the notators and the Beams
\* handed out, with the stave they came from.
BarEngraverNew(n) ==
    [phase |-> "tokens",
     pq |-> [i \in 1 .. n |-> [time |-> Whole, stave |-> i - 1]],
     width |-> BarMargin, all |-> Whole, rests |-> <<>>, elements |-> <<>>,
     bar_width |-> 0, tokens |-> <<>>, shorts |-> <<>>]

\* No bar is being engraved.
NotEngraving ==
    /\ notator = <<>>
    /\ beams = <<>>
    /\ engraver = [BarEngraverNew(0) EXCEPT !.phase = "idle"]

\* A requeue that puts the entry in the queue twice.
Requeue_twice(pq, index, e) == <<e, e>> \o pq

\* "Insert at correct priority level": walk index down from the back of
\* the queue; push_front at index 0, push_back at the first entry with
\* more time.
RECURSIVE Requeue(_, _, _)
Requeue(pq, index, e) ==
    IF index = 0 THEN <<e>> \o pq
    ELSE IF pq[index].time > e.time THEN Append(pq, e)
    ELSE Requeue(pq, index - 1, e)

\* Stave::STEP: half a stave space.
STEP == SPACE \div 2

\* The stave the web front end engraves on, Stave::new(5, Steps(4),
\* Steps(0)): five lines, the top one 4 steps above middle C.
StaveLines == 5
steps_middle_c == 4
MARGIN_STEPS == 6

\* Stave::height_steps
height_steps == IF StaveLines > 0 THEN 2 * (StaveLines - 1) ELSE 0

\* BarElem::new(stave, high, low) with high the visual distance of C4:
\* Stave::steps_top, the steps of the top margin above middle C.
steps_top ==
    LET top == (visual_distance(Pitch(0, "None", 4)) \div 2) * 2 + 2
        dflt == steps_middle_c + MARGIN_STEPS
    IN IF dflt > top THEN dflt ELSE top

\* BarElem::offset_y
offset_y(steps) == (steps_top - steps) * STEP

\* BarElem::middle
middle == offset_y(steps_middle_c - height_steps \div 2)

\* The steps from one stave's row to the next (engrave's ymargin).
ymargin == height_steps + 12

\* A y that grows with the steps above middle C.
y_from_steps_down(steps, ofs) == (steps_top + steps) * STEP + ofs * STEP

\* BarElem::y_from_steps
y_from_steps(steps, ofs) == offset_y(steps) + ofs * STEP

\* BarElem::add_rest
RestElem(dur, width, stave) == [kind |-> "rest", dur |-> dur, width |-> width, stave |-> stave]

\* BarElem::add_pitch: the notehead, its stem (none for a whole note or
\* longer below a longa, nor for notes shorter than a quarter, which get
\* theirs with the flag or beam), and its ledger lines.
PitchElem(dur, width, steps, stave) ==
    [kind |-> "notehead", dur |-> dur, width |-> width, steps |-> steps, stave |-> stave,
     y |-> y_from_steps(steps, ymargin * stave),
     stem |-> ~(dur \in 1 .. 31 \/ dur \in 128 .. 511),
     ledgers |-> LET yyy == IF steps < 0 THEN -steps ELSE steps
                 IN IF yyy >= 6 THEN (yyy - 6) \div 2 + 1 ELSE 0]

\* The noteheads of a chord, in pitch order.
ChordElems(pitches, dur, width, stave) ==
    [k \in 1 .. Len(pitches) |-> PitchElem(dur, width, visual_distance(pitches[k]), stave)]

\* BarElem::add_flags_and_beams for one Short (Panic when a Flag has no
\* pitch to index).
ShortElem(short) ==
    IF short.kind = "Beam" THEN [kind |-> "beam", beam |-> short]
    ELSE IF short.y.pitches = <<>> THEN Panic
    ELSE [kind |-> "flag", dur |-> short.dur, width |-> short.width,
          steps |-> visual_distance(short.y.pitches[1]), stave |-> short.y.y_offset]

-----------------------------------------------------------------------------
(* Program (ink/src/lib.rs) and its key bindings (web/src/main.rs) *)

\* Movement::default(): one measure of two channels, each an implicit
\* whole rest.
DefaultMovement == << << <<>>, <<>> >> >>

\* Scof::default(): movement: vec![Movement::default()]
DefaultScof == << DefaultMovement >>

\* The durations the number keys pass to Program::set_dur, from key 9
\* down to key 1.
KeyDurationOf ==
    << FracNew(4, 1), FracNew(2, 1), FracNew(1, 1), FracNew(1, 2), FracNew(1, 4),
       FracNew(1, 8), FracNew(1, 16), FracNew(1, 32), FracNew(1, 64) >>

\* The durations of the keys the model presses.
KeyDurations ==
    { KeyDurationOf[k] : k \in 1 .. (IF LongestKeys < 9 THEN LongestKeys ELSE 9) }

\* The `create` pitch of Program::move_step: C4.
CreatePitch == Pitch(0, "None", 4)

\* Variant of Program::right that moves the cursor and never adds a
\* measure.
ProgramRight_bare(s, c) == [cursor |-> CursorRight(c, s), scof |-> s]

\* Program::right: Cursor::right, then new_measure when the cursor's
\* measure has no marking.
ProgramRight(s, c) ==
    LET Moved(c1) ==
            [cursor |-> c1, scof |-> IF marking_len(s, c1) = 0 THEN new_measure(s) ELSE s]
    IN Moved(CursorRight(c, s))

\* Program::move_step with gran = 0: [scof, panic, kind].
move_step(s, c, up) ==
    LET Match(mark) ==
            IF mark = None
            THEN set_whole_pitch(s, c) @@ [kind |-> "whole"]
            ELSE IF IsNote(mark)
            THEN set_pitch(s, c, 0, NoteMoveStep(mark, 0, CreatePitch, up).pitch[1])
                 @@ [kind |-> "note"]
            ELSE [scof |-> s, panic |-> FALSE, kind |-> "nothing"]
    IN Match(marking(s, c))

\* Program::set_dur: [scof, panic, kind, spill].
set_dur(s, c, dur) ==
    LET Match(mark) ==
            IF mark = None
            THEN set_whole_duration(s, c, dur) @@ [kind |-> "whole", spill |-> 0]
            ELSE IF IsNote(mark) THEN set_duration(s, c, dur)
            ELSE [scof |-> s, panic |-> FALSE, kind |-> "nothing", spill |-> 0]
    IN Match(marking(s, c))

\* Measures of movement 0.
Bars(s) == Len(s[1])

NoDur == Frac(0, 1)

Last(op, dur, kind, spill) ==
    [op |-> op, dur |-> dur, kind |-> kind, spill |-> spill]

NoRl == [phase |-> 0, start |-> Cursor(0, 0, 0, 0), crossed |-> FALSE,
         existed |-> FALSE, bars |-> 0]

FracIdle == /\ fa = NoDur /\ fb = NoDur /\ fr = NoDur

Init ==
    /\ scof = DefaultScof
    /\ cursor = Cursor(0, 0, 0, 0)
    /\ panicked = FALSE
    /\ overflow_checks = TRUE
    /\ last = Last("new", NoDur, "", 0)
    /\ rl = NoRl
    /\ NotEngraving
    /\ FracIdle

\* Key Left: Program::left
Left ==
    /\ ~panicked
    /\ cursor' = CursorLeft(cursor, scof)
    /\ last' = Last("left", NoDur, "", 0)
    /\ rl' = IF rl.phase = 1 THEN [rl EXCEPT !.phase = 2] ELSE NoRl
    /\ UNCHANGED <<scof, panicked, overflow_checks, notator, beams, engraver, fa, fb, fr>>

\* Key Right: Program::right
Right ==
    /\ ~panicked
    /\ \E r \in {ProgramRight(scof, cursor)} :
        /\ Within(r.scof)
        /\ cursor' = r.cursor
        /\ scof' = r.scof
        /\ last' = Last("right", NoDur,
                        IF r.cursor.measure = cursor.measure THEN "within" ELSE "cross", 0)
        /\ rl' = [phase |-> 1, start |-> cursor,
                  crossed |-> r.cursor.measure # cursor.measure,
                  existed |-> r.cursor.measure < Bars(scof), bars |-> Bars(scof)]
    /\ UNCHANGED <<panicked, overflow_checks, notator, beams, engraver, fa, fb, fr>>

\* Keys K / J: Program::up_step, Program::down_step
Step(up) ==
    /\ ~panicked
    /\ \E r \in {move_step(scof, cursor, up)} :
        /\ Within(r.scof)
        /\ scof' = r.scof
        /\ panicked' = r.panic
        /\ last' = Last(IF up THEN "up_step" ELSE "down_step", NoDur, r.kind, 0)
    /\ rl' = NoRl
    /\ UNCHANGED <<cursor, overflow_checks, notator, beams, engraver, fa, fb, fr>>

UpStep == Step(TRUE)

DownStep == Step(FALSE)

\* Keys 1..9: Program::set_dur
SetDur ==
    /\ ~panicked
    /\ \E dur \in KeyDurations : \E r \in {set_dur(scof, cursor, dur)} :
        /\ Within(r.scof)
        /\ scof' = r.scof
        /\ panicked' = r.panic
        /\ last' = Last("set_dur", dur, r.kind, r.spill)
    /\ rl' = NoRl
    /\ UNCHANGED <<cursor, overflow_checks, notator, beams, engraver, fa, fb, fr>>

Next == Left \/ Right \/ UpStep \/ DownStep \/ SetDur

Spec == Init /\ [][Next]_vars

-----------------------------------------------------------------------------
(* The editing functions of Scof called directly (SpecScof) *)

\* str::split(' '): the pieces between the separators.
RECURSIVE SplitSpace(_, _, _)
SplitSpace(s, cur, acc) ==
    IF s = <<>> THEN Append(acc, cur)
    ELSE IF Head(s) = " " THEN SplitSpace(Tail(s), <<>>, Append(acc, cur))
    ELSE SplitSpace(Tail(s), Append(cur, Head(s)), acc)

\* impl From<Chan> for Channel: every non-empty piece of the text parsed
\* as a marking; None stands for the panic on an invalid marking.
ChannelFrom(text) ==
    LET Parsed(pieces) ==
            IF \E k \in 1 .. Len(pieces) : NoteFromStr(pieces[k]) = None THEN None
            ELSE [k \in 1 .. Len(pieces) |-> NoteFromStr(pieces[k])]
    IN Parsed(SelectSeq(SplitSpace(text, <<>>, <<>>), LAMBDA m : m # <<>>))

\* Channel texts of the documents the model opens: a whole-note chord
\* with an articulation, and a half note followed by a half rest.
ChordText == <<"1", "/", "1", "C", "4", "D", "4", ".">>
HalvesText == <<"1", "/", "2", "D", "4", ">", " ", "1", "/", "2", "R">>

\* A one-measure, two-channel document whose first channel is read from
\* text.
ScofFrom(text) == << << << ChannelFrom(text), ChannelFrom(<<>>) >> >> >>

\* The cursors the functions are called with: every marking position of
\* the first channel, the second channel, one past the channels, one past
\* the movements.
ScofCursors ==
    { Cursor(0, me, 0, mk) : me \in 0 .. MaxMeasures - 1, mk \in 0 .. MaxNotes - 1 }
    \cup { Cursor(0, 0, 1, 0), Cursor(0, 0, 2, 0), Cursor(1, 0, 0, 0) }

\* The pitch set_pitch is called with: D4.
SomePitches == { Pitch(1, "None", 4) }

\* The durations set_duration is called with: 2/1, 1/1, 1/2, 1/4.
SpliceDurations == { KeyDurationOf[k] : k \in 2 .. 5 }

InitScof ==
    /\ scof \in { DefaultScof, ScofFrom(ChordText), ScofFrom(HalvesText) }
    /\ cursor = Cursor(0, 0, 0, 0)
    /\ panicked = FALSE
    /\ overflow_checks = TRUE
    /\ last = [op |-> "new"]
    /\ rl = NoRl
    /\ NotEngraving
    /\ FracIdle

\* Scof::set_pitch(cursor, i, pitch); last.len is the number of pitches
\* the note held before (-1 without a note).
ScofSetPitch ==
    /\ ~panicked
    /\ \E c \in ScofCursors : \E i \in 0 .. MaxPitches : \E pitch \in SomePitches :
       \E r \in {set_pitch(scof, c, i, pitch)} :
        /\ Within(r.scof)
        /\ cursor' = c
        /\ scof' = r.scof
        /\ panicked' = r.panic
        /\ last' = [op |-> "set_pitch", i |-> i, pitch |-> pitch,
                    len |-> IF note_at(scof, c) = None THEN -1
                            ELSE Len(note_at(scof, c).pitch)]
    /\ UNCHANGED <<overflow_checks, notator, beams, engraver, rl, fa, fb, fr>>

\* Scof::set_duration(cursor, dur)
ScofSetDuration ==
    /\ ~panicked
    /\ \E c \in ScofCursors : \E dur \in SpliceDurations :
       \E r \in {set_duration(scof, c, dur)} :
        /\ Within(r.scof)
        /\ cursor' = c
        /\ scof' = r.scof
        /\ panicked' = r.panic
        /\ last' = [op |-> "set_duration", dur |-> dur, kind |-> r.kind,
                    spill |-> r.spill]
    /\ UNCHANGED <<overflow_checks, notator, beams, engraver, rl, fa, fb, fr>>

\* Scof::new_measure()
ScofNewMeasure ==
    /\ ~panicked
    /\ Within(new_measure(scof))
    /\ scof' = new_measure(scof)
    /\ last' = [op |-> "new_measure"]
    /\ UNCHANGED <<cursor, panicked, overflow_checks, notator, beams, engraver, rl, fa, fb, fr>>

NextScof == ScofSetPitch \/ ScofSetDuration \/ ScofNewMeasure

SpecScof == InitScof /\ [][NextScof]_vars

-----------------------------------------------------------------------------
(* The operations of Fraction called directly (SpecFraction) *)

\* Largest numerator of an operand.
MaxNum == 2

\* Denominators of the operands: small ones, and ones whose products
\* leave u16.
OperandDens == {1, 2, 3, 256, 384, 512}

\* The operands: every Fraction::new(n, d) over these, all with den > 0.
FracOperands == { FracNew(n, d) : n \in 0 .. MaxNum, d \in OperandDens }

\* The texts parsed.
ParseTexts ==
    { <<"1", "/", "4">>, <<"1", "/", "0">>, <<"+", "3", "/", "2">>, <<"3">>,
      <<"1", "/", "2", "/", "3">>, <<"7", "0", "0", "0", "0", "/", "1">>,
      <<"1", "/", "x">> }

InitFraction ==
    /\ fa \in FracOperands
    /\ fb \in FracOperands
    /\ fr = NoDur
    /\ overflow_checks \in BOOLEAN
    /\ panicked = FALSE
    /\ last = [op |-> "start", kind |-> ""]
    /\ scof = DefaultScof
    /\ cursor = Cursor(0, 0, 0, 0)
    /\ rl = NoRl
    /\ NotEngraving

\* The outcome r of operation op: the Fraction it produced is kept in fr;
\* a panic or a parse error produces none.
Produced(op, r) ==
    /\ panicked' = (r = FracPanic)
    /\ fr' = IF r = FracPanic \/ r = None THEN fr ELSE r
    /\ last' = [op |-> op,
                kind |-> IF r = FracPanic THEN "panic" ELSE IF r = None THEN "err" ELSE "ok"]
    /\ UNCHANGED <<scof, cursor, overflow_checks, notator, beams, engraver, rl, fa, fb>>

\* Fraction::new(n, d)
FNew ==
    /\ ~panicked
    /\ \E n \in 0 .. MaxNum : \E d \in {0} \cup OperandDens :
          Produced("Fraction::new", FracNew(n, d))

\* fa.recip()
FRecip == ~panicked /\ Produced("recip", FracRecip(fa))

\* fa.simplify()
FSimplify == ~panicked /\ Produced("simplify", FracSimplify(fa))

\* fa + fb
FAdd == ~panicked /\ Produced("add", FracAdd(fa, fb))

\* fa - fb
FSub == ~panicked /\ Produced("sub", FracSub(fa, fb))

\* fa * fb
FMul == ~panicked /\ Produced("mul", FracMul(fa, fb))

\* fa / fb
FDiv == ~panicked /\ Produced("div", FracDiv(fa, fb))

\* text.parse::<Fraction>()
FParse == ~panicked /\ \E text \in ParseTexts : Produced("parse", FracFromStr(text))

NextFraction == FNew \/ FRecip \/ FSimplify \/ FAdd \/ FSub \/ FMul \/ FDiv \/ FParse

SpecFraction == InitFraction /\ [][NextFraction]_vars

-----------------------------------------------------------------------------
(* Expressions over two Fractions, as tests::add, sub and more write them
   (SpecAlgebra) *)

\* Operands at the top of the u16 range (u16::MAX is U16 - 1).
WideOperands ==
    { Frac(U16 - 1, 1), Frac(1, U16 - 1), Frac(U16 - 1, U16 - 1), Frac(0, U16 - 1),
      Frac(U16 - 1, 2) }

\* Sums and differences are taken of the operands of SpecFraction, whose
\* u32 numerators stay below 2^31; comparisons of the wide ones as well.
InitAlgebra ==
    /\ fa \in FracOperands \cup WideOperands
    /\ fb \in FracOperands \cup WideOperands
    /\ fr = NoDur
    /\ overflow_checks \in BOOLEAN
    /\ panicked = FALSE
    /\ last = [op |-> "start", kind |-> ""]
    /\ scof = DefaultScof
    /\ cursor = Cursor(0, 0, 0, 0)
    /\ rl = NoRl
    /\ NotEngraving

\* (fa + fb, fb + fa)
ASum ==
    /\ ~panicked
    /\ fa \in FracOperands /\ fb \in FracOperands
    /\ \E ab \in {FracAdd(fa, fb)} : \E ba \in {FracAdd(fb, fa)} :
          /\ panicked' = (ab = FracPanic \/ ba = FracPanic)
          /\ fr' = IF ab = FracPanic THEN fr ELSE ab
          /\ last' = [op |-> "sum", kind |-> IF panicked' THEN "panic" ELSE "ok",
                      ab |-> ab, ba |-> ba]
    /\ UNCHANGED <<scof, cursor, overflow_checks, notator, beams, engraver, rl, fa, fb>>

\* (fa + fb) - fb
ASumDiff ==
    /\ ~panicked
    /\ fa \in FracOperands /\ fb \in FracOperands
    /\ \E sum \in {FracAdd(fa, fb)} :
       \E back \in {IF sum = FracPanic THEN FracPanic ELSE FracSub(sum, fb)} :
          /\ panicked' = (back = FracPanic)
          /\ fr' = IF back = FracPanic THEN fr ELSE back
          /\ last' = [op |-> "sum_diff", kind |-> IF panicked' THEN "panic" ELSE "ok",
                      sum |-> sum, back |-> back]
    /\ UNCHANGED <<scof, cursor, overflow_checks, notator, beams, engraver, rl, fa, fb>>

\* fa < fb, fa == fb, fa > fb
ACompare ==
    /\ ~panicked
    /\ \E ord \in {FracCmp(fa, fb)} :
          /\ panicked' = (ord = "panic")
          /\ last' = [op |-> "compare", kind |-> IF panicked' THEN "panic" ELSE "ok",
                      lt |-> ord = "lt", eq |-> FracEq(fa, fb), gt |-> ord = "gt"]
    /\ UNCHANGED <<scof, cursor, overflow_checks, notator, beams, engraver, rl, fa, fb, fr>>

NextAlgebra == ASum \/ ASumDiff \/ ACompare

SpecAlgebra == InitAlgebra /\ [][NextAlgebra]_vars

-----------------------------------------------------------------------------
(* A Notator drawn from on its own (SpecNotator) *)

\* Longest duration, in 128ths, of the notes given to the Notator.
MaxChunked == 512

\* B3, C4, D4: one step below middle C, middle C, one step above.
B3 == Pitch(6, "None", 3)

C4 == Pitch(0, "None", 4)

D4 == Pitch(1, "None", 4)

\* Durations of the first note: every count of 128ths, durations off the
\* 128ths grid, an empty one, and ones of 512 measures and more.
NotatorDurations ==
    { Frac(d, Whole) : d \in 1 .. MaxChunked }
    \cup { Frac(1, 3), Frac(2, 3), Frac(5, 12), Frac(0, 1), Frac(512, 1), Frac(U16 - 1, 1) }

\* Pitch sets of the first note: a rest, a note, a chord.
NotatorPitches == { <<>>, <<C4>>, <<C4, D4>> }

\* What follows the first note in the channel.
NotatorTails == { <<>>, << Note(<<D4>>, Frac(3, 8), <<>>) >> }

InitNotator ==
    /\ \E d \in NotatorDurations : \E p \in NotatorPitches : \E tail \in NotatorTails :
          scof = << << << <<Note(p, d, <<>>)>> \o tail >> >> >>
    /\ cursor \in { Cursor(0, 0, 0, 0), Cursor(0, 0, 0, 1) }
    /\ notator = << NotatorNew(Cursor(0, 0, 0, 0)) >>
    /\ beams = <<>>
    /\ engraver = [BarEngraverNew(0) EXCEPT !.phase = "tokens"]
    /\ overflow_checks = TRUE
    /\ panicked = FALSE
    /\ last = [op |-> "start", kind |-> ""]
    /\ rl = NoRl
    /\ fa = NoDur /\ fb = NoDur /\ fr = NoDur

\* The record kept of a token: the stave it came from and the marking it
\* is a piece of (the one before the Notator's cursor).
Emitted(stave, nt, item) ==
    [stave |-> stave, of |-> nt.curs.marking - 1,
     pitch |-> item.pitch, dur |-> item.dur, ic |-> item.ic]

\* notator.next() gave a token.
NotatorToken ==
    /\ ~panicked /\ engraver.phase = "tokens"
    /\ \E r \in {NotatorNext(notator[1], scof, cursor)} :
          /\ r.item.kind = "Token"
          /\ notator' = <<r.nt>>
          /\ engraver' = [engraver EXCEPT !.tokens = Append(@, Emitted(0, r.nt, r.item))]
          /\ last' = [op |-> "next", kind |-> "ok"]
    /\ UNCHANGED <<scof, cursor, panicked, overflow_checks, rl, fa, fb, fr, beams>>

\* notator.next() gave None: the channel is exhausted.
NotatorDone ==
    /\ ~panicked /\ engraver.phase = "tokens"
    /\ \E r \in {NotatorNext(notator[1], scof, cursor)} :
          /\ r.item = None
          /\ notator' = <<r.nt>>
          /\ engraver' = [engraver EXCEPT !.phase = "done"]
          /\ last' = [op |-> "next", kind |-> "none"]
    /\ UNCHANGED <<scof, cursor, panicked, overflow_checks, rl, fa, fb, fr, beams>>

\* notator.next() panicked (the duration does not fit u16).
NotatorPanic ==
    /\ ~panicked /\ engraver.phase = "tokens"
    /\ NotatorNext(notator[1], scof, cursor).item = Panic
    /\ panicked' = TRUE
    /\ last' = [op |-> "next", kind |-> "panic"]
    /\ UNCHANGED <<scof, cursor, overflow_checks, rl, fa, fb, fr, notator, beams, engraver>>

NextNotator == NotatorToken \/ NotatorDone \/ NotatorPanic

SpecNotator == InitNotator /\ [][NextNotator]_vars

-----------------------------------------------------------------------------
(* BarEngraver::engrave over one measure (SpecEngrave) *)

\* Most markings in a channel of the measure engraved.
MaxMarkings == 4

\* The markings a channel is made of: eighths as rests and as notes below,
\* on and above middle C, a sixteenth note, a quarter note and a half note.
MarkingChoices ==
    { Note(p, Frac(1, 8), <<>>) : p \in { <<>>, <<B3>>, <<C4>>, <<D4>> } }
    \cup { Note(<<D4>>, Frac(1, 16), <<>>), Note(<<D4>>, Frac(1, 4), <<>>),
           Note(<<B3>>, Frac(1, 2), <<>>) }

RECURSIVE ChannelsOfLen(_)
ChannelsOfLen(n) ==
    IF n = 0 THEN { <<>> }
    ELSE { Append(c, m) : c \in ChannelsOfLen(n - 1), m \in MarkingChoices }

\* Measures of one channel of up to MaxMarkings markings, and of two
\* channels of at most one marking each.
EngravedMeasures ==
    { <<c>> : c \in UNION { ChannelsOfLen(n) : n \in 0 .. MaxMarkings } }
    \cup { <<c, d>> : c \in ChannelsOfLen(0) \cup ChannelsOfLen(1),
                      d \in ChannelsOfLen(0) \cup ChannelsOfLen(1) }

\* The 128ths of the markings of channel c.
RECURSIVE Asked(_)
Asked(c) ==
    IF c = <<>> THEN 0
    ELSE (Head(c).duration.num * Whole) \div Head(c).duration.den + Asked(Tail(c))

\* The channel holds more than a measure; only then does the build
\* profile matter to engrave.
Overfull(c) == Asked(c) > Whole

\* BarElem::add_markings: a Notator per channel, then BarEngraver::new.
InitEngrave ==
    /\ \E measure \in EngravedMeasures :
          /\ scof = << << measure >> >>
          /\ notator = [i \in 1 .. Len(measure) |-> NotatorNew(Cursor(0, 0, i - 1, 0))]
          /\ beams = [i \in 1 .. Len(measure) |-> BeamsNew]
          /\ engraver = BarEngraverNew(Len(measure))
          /\ overflow_checks \in (IF \E i \in 1 .. Len(measure) : Overfull(measure[i])
                                  THEN BOOLEAN ELSE {TRUE})
    /\ cursor = Cursor(0, 0, 0, 0)
    /\ panicked = FALSE
    /\ last = [op |-> "start", kind |-> ""]
    /\ rl = NoRl
    /\ fa = NoDur /\ fb = NoDur /\ fr = NoDur

\* The record kept of a token the engraver took from queue entry e: as
\* Emitted, with the time remaining when it was taken and the width it
\* was placed at.
Engraved(e, nt, item, width) ==
    [stave |-> e.stave, of |-> nt.curs.marking - 1,
     pitch |-> item.pitch, dur |-> item.dur, ic |-> item.ic,
     time |-> e.time, width |-> width]

\* The phase after the queue became pq: the while loop ends when it is
\* empty.
PhaseAfter(pq) == IF pq = <<>> THEN "beams" ELSE "tokens"

\* One pass of the while loop of engrave in which the notator gives a
\* token: widen, add the rest or chord, advance the beaming, requeue.
\* (The cursor highlight rectangle, which engrave derives from the widths
\* and the ic flags of the tokens, is not kept.)
EngraveToken ==
    /\ ~panicked /\ engraver.phase = "tokens"
    /\ \E e \in {Head(engraver.pq)} :
       \E r \in {NotatorNext(notator[e.stave + 1], scof, cursor)} :
       \E width \in {IF e.time < engraver.all
                     THEN engraver.width + get_spacing(engraver.all - e.time)
                     ELSE engraver.width} :
          /\ r.item.kind = "Token"
          /\ \E b \in {BeamsAdvance(beams[e.stave + 1], r.item.dur, width,
                                    IF r.item.pitch = <<>> THEN None
                                    ELSE SomeY(r.item.pitch, e.stave))} :
             \E time \in {(e.time - r.item.dur) % U16} :
                /\ b # Panic
                /\ ~(overflow_checks /\ e.time < r.item.dur)
                /\ notator' = [notator EXCEPT ![e.stave + 1] = r.nt]
                /\ beams' = [beams EXCEPT ![e.stave + 1] = b]
                /\ \E pq \in {IF time # 0
                              THEN Requeue(Tail(engraver.pq), Len(engraver.pq) - 1,
                                           [time |-> time, stave |-> e.stave])
                              ELSE Tail(engraver.pq)} :
                      engraver' =
                          [engraver EXCEPT
                              !.phase = PhaseAfter(pq),
                              !.pq = pq,
                              !.width = width,
                              !.all = IF e.time < @ THEN e.time ELSE @,
                              !.elements =
                                  IF r.item.pitch = <<>>
                                  THEN Append(@, RestElem(r.item.dur, width, e.stave))
                                  ELSE @ \o ChordElems(r.item.pitch, r.item.dur, width, e.stave),
                              !.tokens = Append(@, Engraved(e, r.nt, r.item, width))]
                /\ last' = [op |-> "token", kind |-> "ok"]
    /\ UNCHANGED <<scof, cursor, panicked, overflow_checks, rl, fa, fb, fr>>

\* One pass in which the notator is exhausted: the stave is left out of
\* the queue (and gets a measure rest at the end).
EngraveExhausted ==
    /\ ~panicked /\ engraver.phase = "tokens"
    /\ \E e \in {Head(engraver.pq)} :
       \E r \in {NotatorNext(notator[e.stave + 1], scof, cursor)} :
          /\ r.item = None
          /\ notator' = [notator EXCEPT ![e.stave + 1] = r.nt]
          /\ engraver' =
                 [engraver EXCEPT
                     !.phase = PhaseAfter(Tail(engraver.pq)),
                     !.pq = Tail(@),
                     !.rests = Append(@, [stave |-> e.stave, ic |-> is_cursor(r.nt, cursor)])]
          /\ last' = [op |-> "exhausted", kind |-> "ok"]
    /\ UNCHANGED <<scof, cursor, panicked, overflow_checks, rl, fa, fb, fr, beams>>

\* A pass that panics: in the notator, in Beams::advance, or in
\* time -= dur.
EngravePanic ==
    /\ ~panicked /\ engraver.phase = "tokens"
    /\ \E e \in {Head(engraver.pq)} :
       \E r \in {NotatorNext(notator[e.stave + 1], scof, cursor)} :
          \/ r.item = Panic
          \/ /\ r.item.kind = "Token"
             /\ \/ overflow_checks /\ e.time < r.item.dur
                \/ BeamsAdvance(beams[e.stave + 1], r.item.dur, 0,
                                IF r.item.pitch = <<>> THEN None
                                ELSE SomeY(r.item.pitch, e.stave)) = Panic
    /\ panicked' = TRUE
    /\ last' = [op |-> "token", kind |-> "panic"]
    /\ UNCHANGED <<scof, cursor, overflow_checks, rl, fa, fb, fr, notator, beams, engraver>>

\* The phase after the Beams left are bs.
PhaseAfterBeams(bs) == IF bs = <<>> THEN "finish" ELSE "beams"

\* add_flags_and_beams: the last Beams gives a Flag or a Beam, whose
\* elements are added; Beam::new or add_flag panics when it indexes a
\* pitch that is not there.
EngraveShort ==
    /\ ~panicked /\ engraver.phase = "beams"
    /\ \E r \in {BeamsNext(beams[Len(beams)])} :
          /\ r.item # None
          /\ IF r.item = Panic \/ ShortElem(r.item) = Panic
             THEN /\ panicked' = TRUE
                  /\ last' = [op |-> "short", kind |-> "panic"]
                  /\ UNCHANGED <<beams, engraver>>
             ELSE /\ beams' = [beams EXCEPT ![Len(beams)] = r.b]
                  /\ engraver' =
                         [engraver EXCEPT
                             !.elements = Append(@, ShortElem(r.item)),
                             !.shorts = Append(@, [stave |-> Len(beams) - 1,
                                                   item |-> r.item])]
                  /\ last' = [op |-> "short", kind |-> "ok"]
                  /\ UNCHANGED panicked
    /\ UNCHANGED <<scof, cursor, overflow_checks, rl, fa, fb, fr, notator>>

\* The last Beams is exhausted: self.beams.pop() takes the next one.
EngraveBeamsDone ==
    /\ ~panicked /\ engraver.phase = "beams"
    /\ \E r \in {BeamsNext(beams[Len(beams)])} :
          /\ r.item = None
          /\ beams' = SubSeq(beams, 1, Len(beams) - 1)
          /\ engraver' = [engraver EXCEPT !.phase = PhaseAfterBeams(beams')]
          /\ last' = [op |-> "beams_done", kind |-> "ok"]
    /\ UNCHANGED <<scof, cursor, panicked, overflow_checks, rl, fa, fb, fr, notator>>

\* Measure rests that are never drawn.
MeasureRests_none(rests, width) == <<>>

\* A measure rest drawn for the first such stave only.
MeasureRests_one(rests, width) ==
    IF rests = <<>> THEN <<>>
    ELSE << [kind |-> "measure_rest", width |-> width, stave |-> rests[1].stave,
             y |-> middle + (ymargin * rests[1].stave - 2) * STEP] >>

\* "Draw measure rests": BarElem::add_measure_rest for every stave whose
\* notator ran out while the stave was queued.
MeasureRests(rests, width) ==
    [k \in 1 .. Len(rests) |->
        [kind |-> "measure_rest", width |-> width, stave |-> rests[k].stave,
         y |-> middle + (ymargin * rests[k].stave - 2) * STEP]]

\* The end of engrave: the rest of the width and the end margin, the
\* measure rests, the bar width, and stave lines and a barline per stave.
EngraveFinish ==
    /\ ~panicked /\ engraver.phase = "finish"
    /\ \E width \in {engraver.width + get_spacing(engraver.all) + BarMargin} :
       \E bar_width \in {IF (BAR_WIDTH * width) \div WidthOne > BAR_WIDTH
                         THEN (BAR_WIDTH * width) \div WidthOne ELSE BAR_WIDTH} :
          engraver' =
              [engraver EXCEPT
                  !.phase = "done",
                  !.width = width,
                  !.bar_width = bar_width,
                  !.elements =
                      @ \o MeasureRests(engraver.rests, width)
                        \o [k \in 1 .. 2 * Len(notator) |->
                               [kind |-> IF k % 2 = 1 THEN "stave" ELSE "barline",
                                x |-> bar_width, stave |-> (k - 1) \div 2]]]
    /\ last' = [op |-> "finish", kind |-> "ok"]
    /\ UNCHANGED <<scof, cursor, panicked, overflow_checks, rl, fa, fb, fr, notator, beams>>

NextEngrave ==
    \/ EngraveToken
    \/ EngraveExhausted
    \/ EngravePanic
    \/ EngraveShort
    \/ EngraveBeamsDone
    \/ EngraveFinish

SpecEngrave == InitEngrave /\ [][NextEngrave]_vars

-----------------------------------------------------------------------------
(* BarEngraver::engrave over measures of several channels (SpecChannels) *)

\* Most channels in the measure engraved.
MaxChannels == 3

\* The channels a measure is made of: an empty one; single notes that the
\* notator hands out as two tokens (3/16, 3/8, 3/4); the quarters C4 and
\* D4; an
\* eighth rest and an eighth; two halves (a full measure); and a half
\* followed by a whole note (more than a measure).
ChannelChoices ==
    { <<>>,
      << Note(<<C4>>, Frac(3, 16), <<>>) >>,
      << Note(<<D4>>, Frac(3, 8), <<>>) >>,
      << Note(<<B3>>, Frac(3, 4), <<>>) >>,
      << Note(<<C4>>, Frac(1, 4), <<>>), Note(<<D4>>, Frac(1, 4), <<>>) >>,
      << Note(<<>>, Frac(1, 8), <<>>), Note(<<C4>>, Frac(1, 8), <<>>) >>,
      << Note(<<B3>>, Frac(1, 2), <<>>), Note(<<B3>>, Frac(1, 2), <<>>) >>,
      << Note(<<B3>>, Frac(1, 2), <<>>), Note(<<C4>>, Frac(1, 1), <<>>) >> }

RECURSIVE MeasuresOf(_)
MeasuresOf(n) ==
    IF n = 0 THEN { <<>> }
    ELSE { Append(m, c) : m \in MeasuresOf(n - 1), c \in ChannelChoices }

\* Measures of one to MaxChannels channels.
ChannelMeasures == UNION { MeasuresOf(n) : n \in 1 .. MaxChannels }

\* BarElem::add_markings: a Notator per channel, then BarEngraver::new.
InitChannels ==
    /\ \E measure \in ChannelMeasures :
          /\ scof = << << measure >> >>
          /\ notator = [i \in 1 .. Len(measure) |-> NotatorNew(Cursor(0, 0, i - 1, 0))]
          /\ beams = [i \in 1 .. Len(measure) |-> BeamsNew]
          /\ engraver = BarEngraverNew(Len(measure))
          /\ overflow_checks \in (IF \E i \in 1 .. Len(measure) : Overfull(measure[i])
                                  THEN BOOLEAN ELSE {TRUE})
    /\ cursor = Cursor(0, 0, 0, 0)
    /\ panicked = FALSE
    /\ last = [op |-> "start", kind |-> ""]
    /\ rl = NoRl
    /\ fa = NoDur /\ fb = NoDur /\ fr = NoDur

SpecChannels == InitChannels /\ [][NextEngrave]_vars

-----------------------------------------------------------------------------
(* get_spacing over its domain (SpecSpacing) *)

\* The longest duration get_spacing has a width for (a longa).
Longa == 512

\* A duration to ask the spacing of.
InitSpacing ==
    /\ \E dur \in 1 .. Longa :
          last = [op |-> "start", kind |-> "", dur |-> dur, spacing |-> 0,
                  shorter |-> 0, shorter_spacing |-> 0]
    /\ fa = NoDur /\ fb = NoDur /\ fr = NoDur
    /\ overflow_checks = TRUE
    /\ panicked = FALSE
    /\ scof = DefaultScof
    /\ cursor = Cursor(0, 0, 0, 0)
    /\ rl = NoRl
    /\ NotEngraving

\* What a call of get_spacing(dur) leaves, after a call with the shorter
\* duration before (0: none).
Spaced(dur, before) ==
    [op |-> "get_spacing", kind |-> IF get_spacing(dur) = -1 THEN "panic" ELSE "ok",
     dur |-> dur, spacing |-> get_spacing(dur),
     shorter |-> before.dur, shorter_spacing |-> before.spacing]

\* get_spacing(dur) for the duration asked.
GetSpacing ==
    /\ last.op = "start"
    /\ last' = Spaced(last.dur, [dur |-> 0, spacing |-> 0])
    /\ UNCHANGED <<scof, cursor, panicked, overflow_checks, notator, beams, engraver, rl, fa, fb, fr>>

\* get_spacing(dur) for the next longer duration after the last one.
GetSpacingLonger ==
    /\ last.op = "get_spacing"
    /\ last.dur < Longa
    /\ last' = Spaced(last.dur + 1, last)
    /\ UNCHANGED <<scof, cursor, panicked, overflow_checks, notator, beams, engraver, rl, fa, fb, fr>>

NextSpacing ==
    \/ GetSpacing
    \/ GetSpacingLonger

SpecSpacing == InitSpacing /\ [][NextSpacing]_vars

-----------------------------------------------------------------------------
(* Note::step_up and Note::step_down over every pitch (SpecPitch) *)

\* Every pitch: C..B, without accidental or with one, octaves -1 to 9.
AllPitches ==
    { Pitch(n, a, o) : n \in 0 .. 6, a \in {"None", "Flat", "Sharp"}, o \in -1 .. 9 }

\* A quarter note of one pitch.
InitPitch ==
    /\ \E p \in AllPitches :
          last = [op |-> "start", kind |-> "", before |-> p,
                  note |-> Note(<<p>>, Frac(1, 4), <<>>)]
    /\ fa = NoDur /\ fb = NoDur /\ fr = NoDur
    /\ overflow_checks = TRUE
    /\ panicked = FALSE
    /\ scof = DefaultScof
    /\ cursor = Cursor(0, 0, 0, 0)
    /\ rl = NoRl
    /\ NotEngraving

\* note.step_up(0, create)
NoteStepUp ==
    /\ last' = [op |-> "step_up", kind |-> "ok", before |-> last.note.pitch[1],
                note |-> NoteMoveStep(last.note, 0, C4, TRUE)]
    /\ UNCHANGED <<scof, cursor, panicked, overflow_checks, notator, beams, engraver, rl, fa, fb, fr>>

\* note.step_down(0, create)
NoteStepDown ==
    /\ last' = [op |-> "step_down", kind |-> "ok", before |-> last.note.pitch[1],
                note |-> NoteMoveStep(last.note, 0, C4, FALSE)]
    /\ UNCHANGED <<scof, cursor, panicked, overflow_checks, notator, beams, engraver, rl, fa, fb, fr>>

NextPitch ==
    \/ NoteStepUp
    \/ NoteStepDown

SpecPitch == InitPitch /\ [][NextPitch]_vars

-----------------------------------------------------------------------------
(* Scof::set_part_measure called directly (SpecSplice) *)

\* Most markings in the channel spliced into.
MaxSplice == 3

\* The markings of that channel: a quarter note, a half rest, and a
\* marking that is not a note.
SpliceMarkings ==
    { Note(<<D4>>, Frac(1, 4), <<>>), Note(<<>>, Frac(1, 2), <<>>), [kind |-> "Breath"] }

RECURSIVE SpliceChannelsOfLen(_)
SpliceChannelsOfLen(n) ==
    IF n = 0 THEN { <<>> }
    ELSE { Append(c, m) : c \in SpliceChannelsOfLen(n - 1), m \in SpliceMarkings }

\* A document of two measures of two channels whose first channel is ch.
SpliceScof(ch) ==
    << << << ch, << Note(<<B3>>, Frac(1, 1), <<>>) >> >>,
          << << Note(<<D4>>, Frac(1, 1), <<>>) >>, <<>> >> >> >>

\* The notes spliced in: C4 of 1/4, 1/2, 3/4 and 1/1.
SpliceNotes ==
    { Note(<<C4>>, d, <<>>) : d \in { Frac(1, 4), Frac(1, 2), Frac(3, 4), Frac(1, 1) } }

\* A channel and a cursor into it: at every marking, at the end, one
\* past the end, or in a channel that does not exist.
InitSplice ==
    /\ \E n \in 0 .. MaxSplice : \E ch \in SpliceChannelsOfLen(n) :
          /\ scof = SpliceScof(ch)
          /\ cursor \in { Cursor(0, 0, 0, b) : b \in 0 .. n + 1 } \cup { Cursor(0, 0, 2, 0) }
    /\ last = [op |-> "start"]
    /\ panicked = FALSE
    /\ overflow_checks = TRUE
    /\ rl = NoRl
    /\ NotEngraving
    /\ FracIdle

\* Scof::set_part_measure(cursor, note); last keeps the document as it
\* was, the note and the remainder returned.
ScofSetPartMeasure ==
    /\ last.op = "start"
    /\ \E n \in SpliceNotes : \E r \in {set_part_measure(scof, cursor, n)} :
        /\ scof' = r.scof
        /\ panicked' = r.panic
        /\ last' = [op |-> "set_part_measure", before |-> scof, note |-> n, rem |-> r.rem]
    /\ UNCHANGED <<cursor, overflow_checks, notator, beams, engraver, rl, fa, fb, fr>>

NextSplice == ScofSetPartMeasure

SpecSplice == InitSplice /\ [][NextSplice]_vars

-----------------------------------------------------------------------------
(* BarEngraver::engrave over measures of full channels (SpecFull) *)

\* Most channels in the measure engraved.
MaxFull == 2

\* The channels a measure is made of.  Full ones: a whole note; two
\* halves; an eighth rest, an eighth and a dotted half; 31 32nds and a
\* 32nd rest; a dotted eighth, a sixteenth and a dotted half.  An empty
\* one, and a half followed by a whole note (more than a measure).
FullChoices ==
    { <<>>,
      << Note(<<C4>>, Frac(1, 1), <<>>) >>,
      << Note(<<B3>>, Frac(1, 2), <<>>), Note(<<B3>>, Frac(1, 2), <<>>) >>,
      << Note(<<>>, Frac(1, 8), <<>>), Note(<<C4>>, Frac(1, 8), <<>>),
         Note(<<D4>>, Frac(3, 4), <<>>) >>,
      << Note(<<C4>>, Frac(31, 32), <<>>), Note(<<>>, Frac(1, 32), <<>>) >>,
      << Note(<<C4>>, Frac(3, 16), <<>>), Note(<<D4>>, Frac(1, 16), <<>>),
         Note(<<B3>>, Frac(3, 4), <<>>) >>,
      << Note(<<B3>>, Frac(1, 2), <<>>), Note(<<C4>>, Frac(1, 1), <<>>) >> }

RECURSIVE FullMeasuresOf(_)
FullMeasuresOf(n) ==
    IF n = 0 THEN { <<>> }
    ELSE { Append(m, c) : m \in FullMeasuresOf(n - 1), c \in FullChoices }

\* BarElem::add_markings: a Notator per channel, then BarEngraver::new.
InitFull ==
    /\ \E measure \in UNION { FullMeasuresOf(n) : n \in 1 .. MaxFull } :
          /\ scof = << << measure >> >>
          /\ notator = [i \in 1 .. Len(measure) |-> NotatorNew(Cursor(0, 0, i - 1, 0))]
          /\ beams = [i \in 1 .. Len(measure) |-> BeamsNew]
          /\ engraver = BarEngraverNew(Len(measure))
          /\ overflow_checks \in (IF \E i \in 1 .. Len(measure) : Overfull(measure[i])
                                  THEN BOOLEAN ELSE {TRUE})
    /\ cursor = Cursor(0, 0, 0, 0)
    /\ panicked = FALSE
    /\ last = [op |-> "start", kind |-> ""]
    /\ rl = NoRl
    /\ fa = NoDur /\ fb = NoDur /\ fr = NoDur

\* engrave is one synchronous call: its loops run pass after pass until
\* they end, so a pass that can be made is made.
SpecFull == InitFull /\ [][NextEngrave]_vars /\ WF_vars(NextEngrave)

-----------------------------------------------------------------------------
(* The Notator of score2svg (score2svg/src/notator.rs) notating one note
   (SpecSvg).  last holds the locals of notate_pitch / notate_rest: dur,
   check and temp_width, with self.width and the chunks handed to
   MeasureElem::add_pitch / add_rest. *)

\* Chunks of duration 0 kept on record; a loop that goes on adding them
\* adds no more to the record beyond these.
MaxZeroChunks == 2

\* Notator::new, with the width of the notes notated before.
InitSvg ==
    /\ \E w \in {Frac(0, 1), Frac(1, 2)} :
          last = [op |-> "new", rest |-> FALSE, asked |-> 0, dur |-> 0, check |-> 0,
                  width |-> w, temp_width |-> w, chunks |-> <<>>]
    /\ scof = DefaultScof
    /\ cursor = Cursor(0, 0, 0, 0)
    /\ panicked = FALSE
    /\ overflow_checks = TRUE
    /\ rl = NoRl
    /\ NotEngraving
    /\ FracIdle

\* Notator::notate calls notate_rest(dur) (rest) or notate_pitch(dur, ..)
\* for a note of dur 128ths; the head of either: check = 128 and
\* temp_width = self.width + Fraction::new(dur, 128).simplify().
NotateStart ==
    /\ ~panicked /\ last.op = "new"
    /\ \E d \in 1 .. Longa : \E rest \in BOOLEAN :
       \E tw \in {FracAdd(last.width, FracSimplify(FracNew(d, Whole)))} :
          /\ panicked' = (tw = FracPanic)
          /\ last' = IF tw = FracPanic THEN [last EXCEPT !.op = "panic"]
                     ELSE [last EXCEPT !.op = "loop", !.rest = rest, !.asked = d,
                                       !.dur = d, !.check = Whole,
                                       !.width = tw, !.temp_width = tw]
    /\ UNCHANGED <<scof, cursor, overflow_checks, notator, beams, engraver, rl, fa, fb, fr>>

\* The chunks with one of c 128ths more.
WithChunk(chunks, c) ==
    IF c = 0 /\ Cardinality({ k \in 1 .. Len(chunks) : chunks[k] = 0 }) >= MaxZeroChunks
    THEN chunks ELSE Append(chunks, c)

\* The locals l after the body of the loop: when dur == check or
\* dur > check the width, moved back by the chunk to w (self.width -
\* Fraction::new(check, 128).simplify(), simplified), and a chunk of check
\* are given
\* to the measure (added: add_pitch / add_rest returned) and dur is
\* reduced; then check is halved, whatever was done.
Passed(l, w, added) ==
    IF l.dur >= l.check
    THEN IF w = FracPanic \/ ~added THEN [l EXCEPT !.op = "panic"]
         ELSE [l EXCEPT !.width = w, !.chunks = WithChunk(l.chunks, l.check),
                        !.dur = l.dur - l.check, !.check = l.check \div 2]
    ELSE [l EXCEPT !.check = l.check \div 2]

\* One pass of `while dur != 0`.  What add_pitch and add_rest make of a
\* chunk of duration 0 is not in this file: they return, or panic.
NotatePass ==
    /\ ~panicked /\ last.op = "loop" /\ last.dur # 0
    /\ \E chunk \in {FracSimplify(FracNew(last.check, Whole))} :
       \E moved \in {FracSub(last.width, chunk)} :
       \E w \in {IF moved = FracPanic THEN FracPanic ELSE FracSimplify(moved)} :
       \E added \in (IF last.check = 0 THEN BOOLEAN ELSE {TRUE}) :
          /\ last' = Passed(last, w, added)
          /\ panicked' = (Passed(last, w, added).op = "panic")
    /\ UNCHANGED <<scof, cursor, overflow_checks, notator, beams, engraver, rl, fa, fb, fr>>

\* The loop has ended: self.width = temp_width.
NotateEnd ==
    /\ ~panicked /\ last.op = "loop" /\ last.dur = 0
    /\ last' = [last EXCEPT !.op = "done", !.width = last.temp_width]
    /\ UNCHANGED <<scof, cursor, panicked, overflow_checks, notator, beams, engraver,
                   rl, fa, fb, fr>>

NextSvg == NotateStart \/ NotatePass \/ NotateEnd

\* notate_pitch and notate_rest are synchronous calls: a pass that can
\* be made is made.
SpecSvg == InitSvg /\ [][NextSvg]_vars /\ WF_vars(NextSvg)


-----------------------------------------------------------------------------
(* Exact rational arithmetic for stating the properties (not the code's). *)

\* Sum of the durations of the Note markings of v as an exact, unreduced
\* rational.
RECURSIVE RatTotal(_)
RatTotal(v) ==
    IF v = <<>> THEN Frac(0, 1)
    ELSE LET Plus(t, d) == Frac(t.num * d.den + d.num * t.den, t.den * d.den)
         IN Plus(RatTotal(Tail(v)), Head(v).duration)

\* a and b denote the same rational.
RatEq(a, b) == a.num * b.den = b.num * a.den

RatPlus(a, b) == Frac(a.num * b.den + b.num * a.den, a.den * b.den)

\* a < b as rationals.
RatLt(a, b) == a.num * b.den < b.num * a.den

\* Every channel of every measure.
Channels(s) ==
    { Cursor(mv - 1, me - 1, ch - 1, 0) :
        mv \in 1 .. Len(s), me \in 1 .. MaxMeasures + 1, ch \in 1 .. 3 }

-----------------------------------------------------------------------------
(* Properties of the Program commands (Spec) *)

\* C1: after any sequence of editing commands from the default score,
\* every channel that contains at least one marking has durations that sum
\* to exactly one whole measure.
C1_MeasureSum ==
    \A c \in Channels(scof) :
        (ChanExists(scof, c) /\ chan_notes(scof, c) # <<>>)
            => RatEq(RatTotal(chan_notes(scof, c)), Frac(1, 1))

\* C1 witness: a set_dur has filled forward over a barline and left two
\* measures with markings.
C1_Witness ==
    /\ last.op = "set_dur" /\ last.kind = "fill" /\ last.spill > 0
    /\ Cardinality({c \in Channels(scof) :
                      ChanExists(scof, c) /\ chan_notes(scof, c) # <<>>}) >= 2

\* C5 (as claimed): a right() appends a measure exactly when the measure
\* the cursor lands on did not exist, and then exactly one.
C5_AppendOnlyPastEnd ==
    [][last'.op = "right" =>
          Bars(scof') = IF cursor'.measure < Bars(scof) THEN Bars(scof)
                        ELSE Bars(scof) + 1]_vars

\* C6: right() then left() returns the cursor to its original position
\* whenever the measure right() lands in already existed.
C6_RightLeft == (rl.phase = 2 /\ rl.existed) => cursor = rl.start

\* C6 witness: a right() crossed a barline into an existing measure and
\* the left() after it came back over the barline to a marking past 0.
C6_Witness ==
    /\ rl.phase = 2 /\ rl.existed /\ rl.crossed
    /\ cursor = rl.start /\ cursor.marking > 0

\* C7 (as claimed): after right() into a newly created measure, left()
\* does not bring the cursor back.
C7_NotReversed == (rl.phase = 2 /\ ~rl.existed) => cursor # rl.start

\* C7 (amended): after right() into a newly created measure, left() does
\* bring the cursor back; what is not undone is the created measure.
C7_CursorBackMeasureStays ==
    (rl.phase = 2 /\ ~rl.existed)
        => (cursor = rl.start /\ Bars(scof) = rl.bars + 1)

\* C7 witness: right() created its measure and left() followed.
C7_Witness == rl.phase = 2 /\ ~rl.existed /\ rl.crossed


\* C4 (as claimed): when a set_dur fills forward only into measures that
\* already exist, the number of measures is unchanged.
C4_NoMeasureWhenNextExists ==
    [][(/\ last'.op = "set_dur" /\ last'.kind = "fill" /\ last'.spill >= 1
        /\ cursor.measure + last'.spill < Bars(scof))
          => Bars(scof') = Bars(scof)]_vars

-----------------------------------------------------------------------------
(* Properties of the Scof editing functions (SpecScof) *)

\* The document outside the channel at c is the same in s and t.
SameElsewhere(s, t, c) ==
    /\ Len(t) = Len(s)
    /\ \A mv \in 1 .. Len(s) :
        /\ Len(t[mv]) = Len(s[mv])
        /\ \A me \in 1 .. Len(s[mv]) :
            /\ Len(t[mv][me]) = Len(s[mv][me])
            /\ \A ch \in 1 .. Len(s[mv][me]) :
                  (mv - 1 # c.movement \/ me - 1 # c.measure \/ ch - 1 # c.chan)
                      => t[mv][me][ch] = s[mv][me][ch]

Pieces(s, c, k) ==
    [j \in 1 .. k + 1 |->
        marking(s, [c EXCEPT !.measure = @ + j - 1,
                             !.marking = IF j = 1 THEN c.marking ELSE 0])]

\* C3: set_duration with a duration not shorter than the note's writes the
\* note at the cursor and a continuation note at the start of every measure
\* it spills into; their durations sum to exactly the requested duration
\* and each carries the pitches of the original note.
C3_FillForwardSum ==
    [][(last'.op = "set_duration" /\ last'.kind = "fill" /\ ~panicked') =>
          LET c == cursor'
              n == note_at(scof, c)
              p == Pieces(scof', c, last'.spill)
          IN /\ ~RatLt(last'.dur, n.duration)
             /\ \A j \in 1 .. Len(p) :
                   p[j] # None /\ IsNote(p[j]) /\ p[j].pitch = n.pitch
             /\ RatEq(RatTotal(p), last'.dur)]_vars

\* C3 witness: a pitched note has been filled forward over a barline and
\* its continuation stands at the start of the next measure.
C3_Witness ==
    /\ last.op = "set_duration" /\ last.kind = "fill" /\ last.spill >= 1
    /\ ~panicked
    /\ note_at(scof, cursor) # None
    /\ note_at(scof, cursor).pitch # <<>>
    /\ note_at(scof, [cursor EXCEPT !.measure = @ + 1, !.marking = 0]) # None

\* C8: set_pitch(cursor, i, pitch) on a note of n pitches appends the pitch
\* when i = n, overwrites pitch i when i < n and aborts when i > n; the
\* note's duration, articulation and other pitches and every other marking
\* of the document are unchanged.
C8_SetPitchFrame ==
    [][(last'.op = "set_pitch" /\ note_at(scof, cursor') # None) =>
          LET c == cursor'
              i == last'.i
              old == note_at(scof, c)
              new == note_at(scof', c)
              n == Len(old.pitch)
          IN IF i > n THEN panicked' /\ scof' = scof
             ELSE /\ ~panicked'
                  /\ new # None
                  /\ Len(new.pitch) = IF i = n THEN n + 1 ELSE n
                  /\ new.pitch[i + 1] = last'.pitch
                  /\ \A j \in 1 .. n : j # i + 1 => new.pitch[j] = old.pitch[j]
                  /\ new.duration = old.duration
                  /\ new.articulation = old.articulation
                  /\ Len(chan_notes(scof', c)) = Len(chan_notes(scof, c))
                  /\ \A j \in 1 .. Len(chan_notes(scof, c)) :
                        j # c.marking + 1
                            => chan_notes(scof', c)[j] = chan_notes(scof, c)[j]
                  /\ SameElsewhere(scof, scof', c)]_vars

\* C8 witness: the second pitch of a two-pitch chord that has an
\* articulation was overwritten, in a channel with another marking.
C8_Witness ==
    /\ last.op = "set_pitch" /\ last.len = 2 /\ last.i = 1
    /\ ~panicked
    /\ note_at(scof, cursor).pitch[2] = last.pitch
    /\ note_at(scof, cursor).pitch[1] # last.pitch
    /\ note_at(scof, cursor).articulation # <<>>
    /\ Len(chan_notes(scof, cursor)) > 1

\* C9: set_pitch and set_duration called with a cursor at which there is
\* no note abort, and the document is as it was.
C9_NoNoteAborts ==
    [][(last'.op \in {"set_pitch", "set_duration"} /\ note_at(scof, cursor') = None)
          => (panicked' /\ scof' = scof)]_vars

\* C9 witness: set_duration has aborted on a cursor one past the last
\* marking of a channel that holds notes.
C9_Witness ==
    /\ panicked /\ last.op = "set_duration"
    /\ ChanExists(scof, cursor)
    /\ chan_notes(scof, cursor) # <<>>
    /\ cursor.marking = Len(chan_notes(scof, cursor))

-----------------------------------------------------------------------------
(* Properties of Fraction (SpecFraction) *)

\* C10 (as claimed): every Fraction produced by new, recip, simplify, add,
\* sub, mul, div or parsing, from operands whose denominators are positive,
\* has a positive denominator.
C10_DenPositive == last.kind = "ok" => fr.den > 0

\* C13 (as claimed): add and sub leave their result unreduced: the stored
\* denominator is the aligned denominator, not divided by the GCD.
C13_StoredUnreduced ==
    (last.op \in {"add", "sub"} /\ last.kind = "ok") => fr.den = Align(fa, fb).den

\* C13 (amended): sub, and add with a non-zero left operand, store their
\* result divided by the GCD of its numerator and denominator (1/4 + 1/4 is
\* stored as 1/2); add with a zero left operand returns the right operand
\* as it is.
C13_StoredReduced ==
    /\ (last.op = "add" /\ last.kind = "ok" /\ fa.num = 0) => fr = fb
    /\ (last.kind = "ok" /\ (last.op = "sub" \/ (last.op = "add" /\ fa.num # 0)))
          => gcd_i(fr.num, fr.den) = 1

\* An add of two equal halves, stored as 1/1.
C13_Witness ==
    /\ last.op = "add" /\ last.kind = "ok"
    /\ fa = Frac(1, 2) /\ fb = Frac(1, 2) /\ fr = Frac(1, 1)

-----------------------------------------------------------------------------
(* Properties of expressions over two Fractions (SpecAlgebra) *)

\* C11 (as claimed): for Fractions a, b with den > 0, a + b and b + a are
\* both computed, are equal under Fraction equality, and denote the exact
\* rational sum of a and b.
C11_AddCommutes ==
    last.op = "sum" =>
        /\ last.kind = "ok"
        /\ FracEq(last.ab, last.ba)
        /\ RatEq(last.ab, RatPlus(fa, fb))

\* C12 (as claimed): for Fractions a, b with den > 0, (a + b) - b is
\* computed and equals a under Fraction equality.
C12_SubUndoesAdd ==
    last.op = "sum_diff" => (last.kind = "ok" /\ FracEq(last.back, fa))

\* The exact order of the rationals a and b: their cross products
\* a.num * b.den and b.num * a.den compared as (high, low) 16-bit halves.
RatOrder(a, b) ==
    LET Order(sh, sl, oh, ol) ==
            IF sh < oh \/ (sh = oh /\ sl < ol) THEN "lt"
            ELSE IF sh = oh /\ sl = ol THEN "eq" ELSE "gt"
    IN Order(MulHi(a.num, b.den), MulLo(a.num, b.den),
             MulHi(b.num, a.den), MulLo(b.num, a.den))

\* C14 (as claimed): for Fractions a, b with den > 0 and any 16-bit num and
\* den, a < b, a == b and a > b are computed and hold exactly when the
\* rational a is less than, equal to, greater than the rational b.
C14_OrderExact ==
    last.op = "compare" =>
        /\ last.kind = "ok"
        /\ last.lt = (RatOrder(fa, fb) = "lt")
        /\ last.eq = (RatOrder(fa, fb) = "eq")
        /\ last.gt = (RatOrder(fa, fb) = "gt")

-----------------------------------------------------------------------------
(* Properties of the Notator (SpecNotator) *)

\* The tokens recorded for marking i of stave st.
TokensOf(st, i) == SelectSeq(engraver.tokens, LAMBDA t : t.stave = st /\ t.of = i)

RECURSIVE SumDur(_)
SumDur(tokens) == IF tokens = <<>> THEN 0 ELSE Head(tokens).dur + SumDur(Tail(tokens))

\* n is one of 1, 2, 4, ..., 128.
IsChunk(n) == n \in { 2 ^ k : k \in 0 .. 7 }

\* C15: once the Notator is exhausted, for every Note marking of the
\* channel the durations of the tokens emitted for it sum to exactly
\* floor(128 * num / den), and each of those tokens carries the note's
\* pitch set.
C15_TokensSumToNote ==
    (engraver.phase = "done" /\ beams = <<>>) =>
        \A i \in 0 .. Len(chan_notes(scof, Cursor(0, 0, 0, 0))) - 1 :
            LET note == chan_notes(scof, Cursor(0, 0, 0, 0))[i + 1] IN
            /\ SumDur(TokensOf(0, i)) = (128 * note.duration.num) \div note.duration.den
            /\ \A k \in 1 .. Len(TokensOf(0, i)) : TokensOf(0, i)[k].pitch = note.pitch

\* A chord of 5/12 (53 128ths: 32 + 16 + 4 + 1) followed by a 3/8 note,
\* both notated.
C15_Witness ==
    /\ engraver.phase = "done" /\ beams = <<>>
    /\ Len(chan_notes(scof, Cursor(0, 0, 0, 0))) = 2
    /\ chan_notes(scof, Cursor(0, 0, 0, 0))[1].duration = Frac(5, 12)
    /\ chan_notes(scof, Cursor(0, 0, 0, 0))[1].pitch = <<C4, D4>>
    /\ Len(TokensOf(0, 0)) = 4
    /\ Len(TokensOf(0, 1)) = 2

\* C16 (as claimed): for every duration d in 1..=512 128ths, the chunks
\* emitted for a note of duration d are strictly decreasing powers of two
\* and sum exactly to d.
C16_StrictlyDecreasing ==
    \A d \in 1 .. 512 :
        (engraver.phase = "done" /\ beams = <<>>
         /\ chan_notes(scof, Cursor(0, 0, 0, 0))[1].duration = Frac(d, Whole)) =>
            /\ SumDur(TokensOf(0, 0)) = d
            /\ \A k \in 1 .. Len(TokensOf(0, 0)) :
                  /\ IsChunk(TokensOf(0, 0)[k].dur)
                  /\ k > 1 => TokensOf(0, 0)[k].dur < TokensOf(0, 0)[k - 1].dur

\* C16 (amended): for every duration d in 1..=512 128ths, the chunks
\* emitted for a note of duration d are powers of two of at most 128, never
\* increasing, and sum exactly to d; they are strictly decreasing when
\* d < 256, and start with floor(d / 128) chunks of 128 otherwise.
C16_ChunksOfWholes ==
    \A d \in 1 .. 512 :
        (engraver.phase = "done" /\ beams = <<>>
         /\ chan_notes(scof, Cursor(0, 0, 0, 0))[1].duration = Frac(d, Whole)) =>
            /\ SumDur(TokensOf(0, 0)) = d
            /\ \A k \in 1 .. Len(TokensOf(0, 0)) :
                  /\ IsChunk(TokensOf(0, 0)[k].dur)
                  /\ k > 1 => TokensOf(0, 0)[k].dur <= TokensOf(0, 0)[k - 1].dur
                  /\ (k > 1 /\ TokensOf(0, 0)[k].dur = TokensOf(0, 0)[k - 1].dur)
                        => TokensOf(0, 0)[k].dur = Whole
                  /\ k <= d \div Whole => TokensOf(0, 0)[k].dur = Whole

\* A note of 384 128ths notated as three chunks of 128.
C16_Witness ==
    /\ engraver.phase = "done" /\ beams = <<>>
    /\ chan_notes(scof, Cursor(0, 0, 0, 0))[1].duration = Frac(384, Whole)
    /\ Len(TokensOf(0, 0)) = 3
    /\ \A k \in 1 .. 3 : TokensOf(0, 0)[k].dur = Whole

-----------------------------------------------------------------------------
(* Properties of the beaming of an engraved measure (SpecEngrave) *)

\* The tokens of stave st, in the order the engraver took them.
StaveTokens(st) == SelectSeq(engraver.tokens, LAMBDA t : t.stave = st)

\* The Flags and Beams of stave st, in the order they were replayed.
StaveShorts(st) == SelectSeq(engraver.shorts, LAMBDA x : x.stave = st)

\* Where token k of the tokens T starts, in 128ths from the bar's start.
Onset(T, k) == SumDur(SubSeq(T, 1, k - 1))

\* The eighth-level bucket a 128th lies in.
Bucket(at) == at \div BEAMRULE_4_4.eighth

IsRest(t) == t.pitch = <<>>

\* Token k of T is a pitched eighth note.
PitchedEighth(T, k) == ~IsRest(T[k]) /\ T[k].dur = 16

\* T[i .. j] is a run of two or more pitched eighth notes, all within one
\* bucket, with a rest, a quarter note or longer, the bucket boundary or
\* the end of the tokens on either side.
EighthRun(T, i, j) ==
    /\ 1 <= i /\ i < j /\ j <= Len(T)
    /\ SumDur(T) <= Whole
    /\ \A k \in i .. j : PitchedEighth(T, k)
    /\ Bucket(Onset(T, i)) = Bucket(Onset(T, j) + T[j].dur - 1)
    /\ \/ i = 1
       \/ IsRest(T[i - 1])
       \/ T[i - 1].dur >= 32
       \/ Onset(T, i) % BEAMRULE_4_4.eighth = 0
    /\ \/ j = Len(T)
       \/ IsRest(T[j + 1])
       \/ T[j + 1].dur >= 32
       \/ Onset(T, j + 1) % BEAMRULE_4_4.eighth = 0

\* The Beam item x has exactly the tokens T[i .. j] as members, in order.
BeamOf(x, T, i, j) ==
    /\ x.item.kind = "Beam"
    /\ Len(x.item.notes) = j - i + 1
    /\ \A k \in 1 .. j - i + 1 :
          /\ x.item.notes[k].width = T[i + k - 1].width
          /\ x.item.notes[k].dur = T[i + k - 1].dur
          /\ x.item.notes[k].pitch = T[i + k - 1].pitch[1]

\* The item x is a Flag at width w, or a Beam with a member at width w.
FlagAt(x, w) == x.item.kind = "Flag" /\ x.item.width = w

MemberAt(x, w) ==
    x.item.kind = "Beam" /\ \E k \in 1 .. Len(x.item.notes) : x.item.notes[k].width = w

\* C17: in an engraved measure, every run of N >= 2 consecutive pitched
\* eighth notes that lie within one eighth-level bucket and are bounded by
\* rests, longer notes, the bucket boundary or the end of the tokens has
\* been replayed as exactly one Beam with those N notes as members in time
\* order; none of them is a Flag or a member of another Beam.
C17_RunIsOneBeam ==
    engraver.phase = "done" =>
        \A st \in 0 .. Len(notator) - 1 :
            \A i, j \in 1 .. Len(StaveTokens(st)) :
                EighthRun(StaveTokens(st), i, j) =>
                    /\ Cardinality({ n \in 1 .. Len(StaveShorts(st)) :
                           BeamOf(StaveShorts(st)[n], StaveTokens(st), i, j) }) = 1
                    /\ \A n \in 1 .. Len(StaveShorts(st)) : \A k \in i .. j :
                          /\ ~FlagAt(StaveShorts(st)[n], StaveTokens(st)[k].width)
                          /\ MemberAt(StaveShorts(st)[n], StaveTokens(st)[k].width)
                                => BeamOf(StaveShorts(st)[n], StaveTokens(st), i, j)

\* A bar of four markings: a quarter note, two eighth notes up to the
\* bucket boundary, and an eighth note beyond it; the two are one Beam and
\* the third a Flag.
C17_Witness ==
    /\ engraver.phase = "done"
    /\ Len(StaveTokens(0)) = 4
    /\ EighthRun(StaveTokens(0), 2, 3)
    /\ PitchedEighth(StaveTokens(0), 4)
    /\ Len(StaveShorts(0)) = 2
    /\ BeamOf(StaveShorts(0)[1], StaveTokens(0), 2, 3)
    /\ StaveShorts(0)[2].item.kind = "Flag"

\* Token k of T is a pitched eighth note with a rest, or nothing, on
\* either side.
LoneEighth(T, k) ==
    /\ k \in 1 .. Len(T)
    /\ SumDur(T) <= Whole
    /\ PitchedEighth(T, k)
    /\ k = 1 \/ IsRest(T[k - 1])
    /\ k = Len(T) \/ IsRest(T[k + 1])

\* C18: in an engraved measure, a pitched eighth note whose neighbours on
\* both sides are rests (or the measure boundary) has been replayed as
\* exactly one Flag, and is a member of no Beam.
C18_LoneEighthIsFlag ==
    engraver.phase = "done" =>
        \A st \in 0 .. Len(notator) - 1 :
            \A k \in 1 .. Len(StaveTokens(st)) :
                LoneEighth(StaveTokens(st), k) =>
                    /\ Cardinality({ n \in 1 .. Len(StaveShorts(st)) :
                           FlagAt(StaveShorts(st)[n], StaveTokens(st)[k].width) }) = 1
                    /\ \A n \in 1 .. Len(StaveShorts(st)) :
                          /\ ~MemberAt(StaveShorts(st)[n], StaveTokens(st)[k].width)
                          /\ FlagAt(StaveShorts(st)[n], StaveTokens(st)[k].width)
                                => /\ StaveShorts(st)[n].item.dur = 16
                                   /\ StaveShorts(st)[n].item.y.pitches
                                          = StaveTokens(st)[k].pitch

\* An eighth rest, an eighth note, an eighth rest and one more marking:
\* the lone eighth is the one Flag of the bar.
C18_Witness ==
    /\ engraver.phase = "done"
    /\ Len(StaveTokens(0)) = 4
    /\ LoneEighth(StaveTokens(0), 2)
    /\ IsRest(StaveTokens(0)[1]) /\ IsRest(StaveTokens(0)[3])
    /\ Len(StaveShorts(0)) = 1
    /\ FlagAt(StaveShorts(0)[1], StaveTokens(0)[2].width)

\* C19: no rest is ever queued, beamed or flagged: every entry the Beams
\* hold and every member of every emitted Beam and every emitted Flag has
\* a non-empty pitch set and is a pitched token of its stave, and replay
\* never fails for want of a pitch.
C19_NoRestInBeamOrFlag ==
    /\ \A n \in 1 .. Len(beams) :
          /\ \A k \in 1 .. Len(beams[n].short) : beams[n].short[k].y.pitches # <<>>
          /\ \A k \in 1 .. Len(beams[n].notes) : beams[n].notes[k].y.pitches # <<>>
    /\ \A n \in 1 .. Len(engraver.shorts) :
          LET x == engraver.shorts[n]
              Pitched(w, p) ==
                  \E k \in 1 .. Len(engraver.tokens) :
                      /\ engraver.tokens[k].stave = x.stave
                      /\ engraver.tokens[k].width = w
                      /\ engraver.tokens[k].pitch # <<>>
                      /\ engraver.tokens[k].pitch[1] = p
          IN IF x.item.kind = "Flag"
             THEN x.item.y.pitches # <<>> /\ Pitched(x.item.width, x.item.y.pitches[1])
             ELSE \A k \in 1 .. Len(x.item.notes) :
                      Pitched(x.item.notes[k].width, x.item.notes[k].pitch)
    /\ ~(last.op = "short" /\ last.kind = "panic")

\* A bar with rests shorter than a quarter note between short notes,
\* replayed to the end with a Flag and a Beam.
C19_Witness ==
    /\ engraver.phase = "done"
    /\ \E k \in 1 .. Len(engraver.tokens) :
          IsRest(engraver.tokens[k]) /\ engraver.tokens[k].dur < 32
    /\ \E n \in 1 .. Len(engraver.shorts) : engraver.shorts[n].item.kind = "Flag"
    /\ \E n \in 1 .. Len(engraver.shorts) : engraver.shorts[n].item.kind = "Beam"

\* The members of the Beam x with a visual distance above, below zero.
Above(x) == Cardinality({ k \in 1 .. Len(x.notes) : visual_distance(x.notes[k].pitch) > 0 })

Below(x) == Cardinality({ k \in 1 .. Len(x.notes) : visual_distance(x.notes[k].pitch) < 0 })

\* C20 (as claimed): the stems of a Beam are up when more of its members
\* have a positive visual distance than a negative one, and down when the
\* vote is tied or zero.
C20_UpOnNetPositive ==
    \A n \in 1 .. Len(engraver.shorts) :
        engraver.shorts[n].item.kind = "Beam" =>
            /\ Above(engraver.shorts[n].item) > Below(engraver.shorts[n].item)
                  => engraver.shorts[n].item.stems_up
            /\ Above(engraver.shorts[n].item) = Below(engraver.shorts[n].item)
                  => ~engraver.shorts[n].item.stems_up

\* C20 (amended): the stems of a Beam are up exactly when more of its
\* members have a negative visual distance (below middle C) than a
\* positive one; when the vote is net positive, tied or zero they are
\* down.  The Beam holds the one direction for all its members.
C20_UpOnNetNegative ==
    \A n \in 1 .. Len(engraver.shorts) :
        engraver.shorts[n].item.kind = "Beam" =>
            engraver.shorts[n].item.stems_up
                = (Below(engraver.shorts[n].item) > Above(engraver.shorts[n].item))

\* A Beam of two notes below middle C and one above, stems up.
C20_Witness ==
    \E n \in 1 .. Len(engraver.shorts) :
        /\ engraver.shorts[n].item.kind = "Beam"
        /\ Above(engraver.shorts[n].item) = 1 /\ Below(engraver.shorts[n].item) = 2
        /\ engraver.shorts[n].item.stems_up

\* The notes of the replayed items S, in the order replayed: a Flag is
\* one note, a Beam its members.
RECURSIVE ReplayedNotes(_)
ReplayedNotes(S) ==
    IF S = <<>> THEN <<>>
    ELSE (IF Head(S).item.kind = "Flag"
          THEN << [width |-> Head(S).item.width, dur |-> Head(S).item.dur,
                   pitch |-> Head(S).item.y.pitches[1]] >>
          ELSE [k \in 1 .. Len(Head(S).item.notes) |->
                   [width |-> Head(S).item.notes[k].width,
                    dur |-> Head(S).item.notes[k].dur,
                    pitch |-> Head(S).item.notes[k].pitch]])
         \o ReplayedNotes(Tail(S))

\* The pitched tokens of T shorter than a quarter note, in time order.
RECURSIVE ShortNotes(_)
ShortNotes(T) ==
    IF T = <<>> THEN <<>>
    ELSE (IF ~IsRest(Head(T)) /\ Head(T).dur < 32
          THEN << [width |-> Head(T).width, dur |-> Head(T).dur,
                   pitch |-> Head(T).pitch[1]] >>
          ELSE <<>>)
         \o ShortNotes(Tail(T))

\* C21: once a bar is engraved, the notes replayed from each stave's Beams
\* (Flags, and members of Beams) are exactly the stave's pitched tokens
\* shorter than a quarter note, each once, in time order; while the replay
\* is under way nothing replayed so far is out of that order.
C21_EveryShortNoteOnce ==
    \A st \in 0 .. Len(notator) - 1 :
        /\ engraver.phase \in {"finish", "done"}
              => ReplayedNotes(StaveShorts(st)) = ShortNotes(StaveTokens(st))
        /\ engraver.phase = "beams" /\ ~panicked
              => \E n \in 0 .. Len(ShortNotes(StaveTokens(st))) :
                    ReplayedNotes(StaveShorts(st))
                        = SubSeq(ShortNotes(StaveTokens(st)), 1, n)

\* A bar of three or more short notes replayed as more than one item, one
\* of them a Beam of several notes.
C21_Witness ==
    /\ engraver.phase = "done"
    /\ Len(StaveShorts(0)) >= 2
    /\ Len(ShortNotes(StaveTokens(0))) >= 3
    /\ \E i \in 1 .. Len(StaveShorts(0)) :
          /\ StaveShorts(0)[i].item.kind = "Beam"
          /\ Len(StaveShorts(0)[i].item.notes) >= 2

\* The channels of the measure engraved.
EngravedChannels == scof[1][1]

\* No channel of the measure holds more than a measure.
NoneOverfull == \A i \in 1 .. Len(EngravedChannels) : ~Overfull(EngravedChannels[i])

\* C22: in a measure none of whose channels is over-full, the queue is in
\* priority order (no entry has more time remaining than an entry ahead of
\* it), so that tokens are taken in non-decreasing order of their start
\* time (non-increasing time remaining).
C22_QueueInPriorityOrder ==
    NoneOverfull =>
        /\ \A i, j \in 1 .. Len(engraver.pq) :
              i < j => engraver.pq[i].time >= engraver.pq[j].time
        /\ \A i, j \in 1 .. Len(engraver.tokens) :
              i < j => engraver.tokens[i].time >= engraver.tokens[j].time

\* When the entry of stave st now queued was inserted: the number of
\* tokens emitted when its last token was (it is requeued in the same
\* pass), or, for a stave that has given no token, its place in the queue
\* BarEngraver::new built.
RECURSIVE InsertedAt(_, _)
InsertedAt(st, k) ==
    IF k = 0 THEN st - Len(notator)
    ELSE IF engraver.tokens[k].stave = st THEN k
    ELSE InsertedAt(st, k - 1)

\* C23: in a measure none of whose channels is over-full, of two queued
\* entries with the same time remaining the one ahead in the queue (popped
\* earlier) is the one that was inserted earlier.
C23_TiesFifo ==
    NoneOverfull =>
        \A i, j \in 1 .. Len(engraver.pq) :
            i < j /\ engraver.pq[i].time = engraver.pq[j].time
                => InsertedAt(engraver.pq[i].stave, Len(engraver.tokens))
                       < InsertedAt(engraver.pq[j].stave, Len(engraver.tokens))

\* C24: in a measure none of whose channels is over-full, tokens of
\* different channels taken with the same time remaining (the same start
\* time) are placed at the same width, and a token is placed further
\* right than the token before it only if it has less time remaining than
\* every token before it.
C24_SimultaneousSameWidth ==
    NoneOverfull =>
        /\ \A i, j \in 1 .. Len(engraver.tokens) :
              /\ engraver.tokens[i].stave # engraver.tokens[j].stave
              /\ engraver.tokens[i].time = engraver.tokens[j].time
              => engraver.tokens[i].width = engraver.tokens[j].width
        /\ \A k \in 2 .. Len(engraver.tokens) :
              engraver.tokens[k].width # engraver.tokens[k - 1].width
                  => \A i \in 1 .. k - 1 :
                        engraver.tokens[k].time < engraver.tokens[i].time

\* Stave st is among the staves noted for a measure rest.
HasRest(st) == \E k \in 1 .. Len(engraver.rests) : engraver.rests[k].stave = st

\* The measure rests drawn for stave st.
MeasureRestsOf(st) ==
    SelectSeq(engraver.elements, LAMBDA x : x.kind = "measure_rest" /\ x.stave = st)

GlyphKinds == {"rest", "notehead", "flag", "beam", "measure_rest"}

\* The elements of those kinds, in the order added.
Glyphs == SelectSeq(engraver.elements, LAMBDA x : x.kind \in GlyphKinds)

\* C26: a bar of two channels without markings is engraved as exactly two
\* whole-measure rests, one in the row of each channel (a row apart), and
\* no notehead (with or without stem), rest of a token, flag or beam.
C26_TwoWholeRests ==
    engraver.phase = "done" /\ EngravedChannels = << <<>>, <<>> >> =>
        /\ Len(Glyphs) = 2
        /\ \A k \in 1 .. 2 :
              /\ Glyphs[k].kind = "measure_rest"
              /\ Glyphs[k].stave = k - 1
        /\ Glyphs[2].y - Glyphs[1].y = ymargin * STEP
        /\ Glyphs[1].width = Glyphs[2].width

\* The bar of two empty channels, engraved.
C26_Witness ==
    /\ engraver.phase = "done" /\ EngravedChannels = << <<>>, <<>> >>
    /\ \E k \in 1 .. Len(engraver.elements) : engraver.elements[k].kind = "measure_rest"

\* The content width of the engraved bar in the units of bar_width:
\* (BAR_WIDTH as f32 * self.width) as i32.
ContentWidth == (BAR_WIDTH * engraver.width) \div WidthOne

\* C27: the bar width of an engraved bar is the larger of its content
\* width and BAR_WIDTH, and it is BAR_WIDTH when no channel of the measure
\* has markings.
C27_BarWidth ==
    engraver.phase = "done" =>
        /\ engraver.bar_width
               = IF ContentWidth > BAR_WIDTH THEN ContentWidth ELSE BAR_WIDTH
        /\ (\A i \in 1 .. Len(EngravedChannels) : EngravedChannels[i] = <<>>)
               => engraver.bar_width = BAR_WIDTH

\* The noteheads drawn, in the order added.
Noteheads == SelectSeq(engraver.elements, LAMBDA x : x.kind = "notehead")

\* The channel of the quarters C4 and D4.
QuartersC4D4 == << Note(<<C4>>, Frac(1, 4), <<>>), Note(<<D4>>, Frac(1, 4), <<>>) >>

\* C28: the bar of one channel holding the quarters C4 and D4 is engraved
\* with exactly two noteheads, the second (D4) one STEP above the first
\* (C4, on the step of middle C), and no flag or beam; and in every bar no
\* note of 32 128ths or more is queued in a Beams or replayed from one as a
\* Flag or a member of a Beam.
C28_QuartersAreNotShort ==
    /\ \A i \in 1 .. Len(beams) : \A k \in 1 .. Len(beams[i].short) :
          beams[i].short[k].dur < 32
    /\ \A st \in 0 .. Len(notator) - 1 :
          \A k \in 1 .. Len(ReplayedNotes(StaveShorts(st))) :
              ReplayedNotes(StaveShorts(st))[k].dur < 32
    /\ engraver.phase = "done" /\ EngravedChannels = << QuartersC4D4 >> =>
          /\ Len(Noteheads) = 2
          /\ Noteheads[1].steps = 0 /\ Noteheads[2].steps = 1
          /\ Noteheads[1].y - Noteheads[2].y = STEP
          /\ Noteheads[1].y = offset_y(0)
          /\ \A k \in 1 .. Len(engraver.elements) :
                engraver.elements[k].kind \notin {"flag", "beam"}
          /\ engraver.shorts = <<>>

\* The bar of the quarters C4 and D4, engraved with its noteheads.
C28_Witness ==
    /\ engraver.phase = "done" /\ EngravedChannels = << QuartersC4D4 >>
    /\ Len(Noteheads) = 2
    /\ Noteheads[1].dur = 32 /\ Noteheads[2].dur = 32

\* C29: of two successive durations in 1..512, get_spacing gives the
\* shorter one no more width than the longer one (and panics for
\* neither), so that it is non-decreasing over 1..512.
C29_SpacingMonotone ==
    last.op = "get_spacing" =>
        /\ last.kind = "ok"
        /\ last.shorter > 0 => last.shorter_spacing <= last.spacing

\* C30: step_up leaves B in octave 9 as it is and takes every other pitch
\* to the pitch one step higher with the same accidental, in the same
\* octave unless it goes from B to C; step_down leaves C in octave -1 as
\* it is and takes every other pitch one step lower with the same
\* accidental, in the same octave unless it goes from C to B; the octave
\* is always within -1..9.
C30_StepsByOne ==
    /\ last.note.pitch[1].octave \in -1 .. 9
    /\ Len(last.note.pitch) = 1
    /\ last.op = "step_up" =>
          IF last.before.name = 6 /\ last.before.octave = 9
          THEN last.note.pitch[1] = last.before
          ELSE /\ visual_distance(last.note.pitch[1]) = visual_distance(last.before) + 1
               /\ last.note.pitch[1].accidental = last.before.accidental
               /\ last.note.pitch[1].octave # last.before.octave
                     <=> last.before.name = 6 /\ last.note.pitch[1].name = 0
    /\ last.op = "step_down" =>
          IF last.before.name = 0 /\ last.before.octave = -1
          THEN last.note.pitch[1] = last.before
          ELSE /\ visual_distance(last.note.pitch[1]) = visual_distance(last.before) - 1
               /\ last.note.pitch[1].accidental = last.before.accidental
               /\ last.note.pitch[1].octave # last.before.octave
                     <=> last.before.name = 0 /\ last.note.pitch[1].name = 6

\* A step up from B with a flat in octave 8 that went to C with a flat in
\* octave 9.
C30_Witness ==
    /\ last.op = "step_up"
    /\ last.before = Pitch(6, "Flat", 8)
    /\ last.note.pitch[1] = Pitch(0, "Flat", 9)

-----------------------------------------------------------------------------
(* Properties of Scof::set_part_measure (SpecSplice) *)

\* The Note markings of v.
NotesOf(v) == SelectSeq(v, IsNote)

\* The channel the cursor is in as it was before the call, and the part
\* of it at and after the cursor.
SplicedBefore == chan_notes(last.before, cursor)
SplicedTail == SubSeq(SplicedBefore, cursor.marking + 1, Len(SplicedBefore))

\* The call was made with a cursor into an existing channel, at a marking
\* or at the end.
SpliceCalled ==
    /\ last.op = "set_part_measure"
    /\ ChanExists(last.before, cursor)
    /\ cursor.marking <= Len(SplicedBefore)

\* C31: set_part_measure returns no remainder exactly when the Note
\* markings at and after the cursor total at least the note's duration D;
\* otherwise the channel becomes the markings before the cursor followed by
\* the note with that total as its duration, and the remainder returned is
\* exactly D less that total.
C31_RemainderIsShortfall ==
    SpliceCalled =>
        LET total == RatTotal(NotesOf(SplicedTail))
            D == last.note.duration
            new == chan_notes(scof, cursor)
            b == cursor.marking
        IN /\ ~panicked
           /\ last.rem = None <=> ~RatLt(total, D)
           /\ last.rem # None =>
                 /\ Len(new) = b + 1
                 /\ SubSeq(new, 1, b) = SubSeq(SplicedBefore, 1, b)
                 /\ IsNote(new[b + 1])
                 /\ new[b + 1].pitch = last.note.pitch
                 /\ new[b + 1].articulation = last.note.articulation
                 /\ RatEq(new[b + 1].duration, total)
                 /\ RatEq(RatPlus(last.rem, total), D)

\* A whole note spliced in at the second marking of a channel that held
\* 3/4 from there on: the note stands there with 3/4 and 1/4 came back.
C31_Witness ==
    /\ SpliceCalled /\ ~panicked
    /\ last.rem # None
    /\ cursor.marking = 1
    /\ RatEq(last.rem, Frac(1, 4))
    /\ RatEq(chan_notes(scof, cursor)[2].duration, Frac(3, 4))

\* C32: set_part_measure leaves the markings before the cursor as they
\* were; when it returns no remainder it stopped at the first Note marking
\* at or after the cursor up to which the durations reach the note's, and
\* the channel is then the markings before the cursor, the new note, that
\* marking with its pitches and with its duration less what was still
\* asked for (unless nothing of it is left), and the markings after it as
\* they were; the other channels and measures are unchanged.
C32_SpliceFrame ==
    SpliceCalled /\ ~panicked =>
        LET D == last.note.duration
            new == chan_notes(scof, cursor)
            b == cursor.marking
            Upto(k) == RatTotal(NotesOf(SubSeq(SplicedTail, 1, k)))
            After(k) == SubSeq(SplicedTail, k + 1, Len(SplicedTail))
        IN /\ SubSeq(new, 1, b) = SubSeq(SplicedBefore, 1, b)
           /\ SameElsewhere(last.before, scof, cursor)
           /\ last.rem = None =>
                 \E k \in 1 .. Len(SplicedTail) :
                     /\ IsNote(SplicedTail[k])
                     /\ RatLt(Upto(k - 1), D) /\ ~RatLt(Upto(k), D)
                     /\ new[b + 1] = last.note
                     /\ IF RatEq(Upto(k), D)
                        THEN SubSeq(new, b + 2, Len(new)) = After(k)
                        ELSE /\ Len(new) >= b + 2
                             /\ IsNote(new[b + 2])
                             /\ new[b + 2].pitch = SplicedTail[k].pitch
                             /\ new[b + 2].articulation = SplicedTail[k].articulation
                             /\ RatEq(RatPlus(new[b + 2].duration, D), Upto(k))
                             /\ SubSeq(new, b + 3, Len(new)) = After(k)

\* A quarter note spliced in at the second marking, where a half rest
\* stood with a marking before and a marking after it: the rest was split.
C32_Witness ==
    /\ SpliceCalled /\ ~panicked /\ last.rem = None
    /\ cursor.marking = 1
    /\ Len(SplicedBefore) = 3
    /\ SplicedBefore[2] = Note(<<>>, Frac(1, 2), <<>>)
    /\ last.note.duration = Frac(1, 4)
    /\ Len(chan_notes(scof, cursor)) = 4

-----------------------------------------------------------------------------
(* Properties of Beams::advance within engrave (SpecEngrave) *)

\* Token t is pitched and shorter than a quarter note.
ShortPitched(t) == ~IsRest(t) /\ t.dur < 32

\* The BeamProp of a token that takes the time remaining from before to
\* after within one eighth-level bucket: by the finest level of buckets it
\* stays within.
ContinueLevel(before, after) ==
    IF before \div BEAMRULE_4_4.inner = after \div BEAMRULE_4_4.inner
    THEN "ContinueInner"
    ELSE IF before \div BEAMRULE_4_4.sixteenth = after \div BEAMRULE_4_4.sixteenth
    THEN "ContinueSixteenth"
    ELSE "ContinueEighth"

\* C33: when the engraver passes a token to Beams::advance, a rest or a
\* note of a quarter or more queues nothing; a short pitched token is
\* queued with a Continue* property exactly when the token before it on
\* the stave was a short pitched token and the time remaining before and
\* after it lies in the same eighth-level bucket (the level by the finest
\* bucket it stays within), and with Flag otherwise, so never with
\* Continue* right after a rest or a long note.
C33_ContinueOnlyAfterShort ==
    [][(last'.op = "token" /\ last'.kind = "ok") =>
          LET t == engraver'.tokens[Len(engraver'.tokens)]
              before == StaveTokens(t.stave)
              b == beams[t.stave + 1]
              b2 == beams'[t.stave + 1]
              after_short == before # <<>> /\ ShortPitched(before[Len(before)])
          IN IF ShortPitched(t)
             THEN /\ Len(b2.short) = Len(b.short) + 1
                  /\ b2.short[Len(b2.short)].prop =
                        IF after_short /\ Bucket(b.dur) = Bucket(b2.dur)
                        THEN ContinueLevel(b.dur, b2.dur)
                        ELSE "Flag"
             ELSE b2.short = b.short]_vars

\* A short pitched token queued right after a rest within one bucket (as
\* a Flag), in a bar where another was queued as a continuation.
C33_Witness ==
    /\ engraver.phase = "tokens"
    /\ \E k \in 2 .. Len(engraver.tokens) :
          /\ IsRest(engraver.tokens[k - 1])
          /\ ShortPitched(engraver.tokens[k])
          /\ Bucket(engraver.tokens[k].time) = Bucket(engraver.tokens[k].time - engraver.tokens[k].dur)
          /\ k = Len(engraver.tokens)
          /\ beams[1].short[Len(beams[1].short)].prop = "Flag"
    /\ \E j \in 1 .. Len(beams[1].short) : beams[1].short[j].prop = "ContinueInner"

-----------------------------------------------------------------------------
(* Properties of Scof::new_measure (SpecScof) *)

\* C34: a call of new_measure adds to movement 0, after the measures it
\* had, one measure with as many channels as the last of them, none with a
\* marking; and whatever editing functions are called, every measure of
\* the movement has as many channels as measure 0.
C34_ChannelCountKept ==
    /\ [](\A me \in 1 .. Len(scof[1]) : Len(scof[1][me]) = Len(scof[1][1]))
    /\ [][last'.op = "new_measure" =>
             /\ Len(scof'[1]) = Len(scof[1]) + 1
             /\ SubSeq(scof'[1], 1, Len(scof[1])) = scof[1]
             /\ Len(scof'[1][Len(scof'[1])]) = Len(scof[1][Len(scof[1])])
             /\ \A ch \in 1 .. Len(scof'[1][Len(scof'[1])]) :
                   scof'[1][Len(scof'[1])][ch] = <<>>]_vars

\* new_measure has just added a third measure of two empty channels to a
\* document whose first measure has markings.
C34_Witness ==
    /\ last.op = "new_measure"
    /\ Len(scof[1]) = 3
    /\ scof[1][3] = << <<>>, <<>> >>
    /\ scof[1][1][1] # <<>>

-----------------------------------------------------------------------------
(* Properties of impl Mul and impl Div for Fraction (SpecFraction) *)

\* C35: for operands with den > 0 (and a divisor that is not zero), the
\* Fraction that fa * fb or fa / fb produces has a positive denominator,
\* denotes exactly (a.num * b.num) / (a.den * b.den), b being fb or its
\* reciprocal, and is in lowest terms.
C35_ProductExact ==
    (/\ last.op \in {"mul", "div"}
     /\ last.kind = "ok"
     /\ last.op = "div" => fb.num # 0)
    => \E b \in {IF last.op = "mul" THEN fb ELSE FracRecip(fb)} :
          /\ fr.den > 0
          /\ fr.num * (fa.den * b.den) = (fa.num * b.num) * fr.den
          /\ gcd_i(fr.num, fr.den) = 1

-----------------------------------------------------------------------------
(* The size of the Beams replayed (SpecEngrave) *)

\* C36: in a bar whose channels hold at most one measure each, every Beam
\* that replaying the Beams has emitted has at least two member notes; a
\* short note connected to no neighbour is a Flag.
C36_BeamsHaveTwoNotes ==
    NoneOverfull =>
        \A n \in 1 .. Len(engraver.shorts) :
            engraver.shorts[n].item.kind = "Beam" => Len(engraver.shorts[n].item.notes) >= 2

-----------------------------------------------------------------------------
(* The cursor of the Program (Spec) *)

\* C37: whatever keys are pressed from the default score, the cursor
\* addresses a channel of a measure the document has, and its marking
\* index is an index of that channel's markings, or 0 when the channel has
\* none.
C37_CursorAddressesDocument ==
    ~panicked =>
        /\ ChanExists(scof, cursor)
        /\ \/ cursor.marking < Len(chan_notes(scof, cursor))
           \/ cursor.marking = 0 /\ chan_notes(scof, cursor) = <<>>

\* The cursor stands on the second marking of a channel, in a document
\* to which Program::right has added a measure, after a duration key was
\* pressed on a note.
C37_Witness ==
    /\ ~panicked
    /\ last.op = "set_dur" /\ last.kind \in {"fill", "shorten"}
    /\ cursor.marking = 1
    /\ Len(chan_notes(scof, cursor)) >= 2
    /\ Len(scof[1]) >= 2

-----------------------------------------------------------------------------
(* Termination and counters of BarEngraver::engrave (SpecFull) *)

\* Every channel of the measure engraved that has markings holds exactly
\* one measure.
AllFull ==
    \A i \in 1 .. Len(EngravedChannels) :
        EngravedChannels[i] # <<>> => Asked(EngravedChannels[i]) = Whole

\* The time counter of stave st after the tokens taken so far.
Remaining(st) ==
    IF StaveTokens(st) = <<>> THEN Whole
    ELSE StaveTokens(st)[Len(StaveTokens(st))].time
            - StaveTokens(st)[Len(StaveTokens(st))].dur

\* No pass has panicked; no stave is queued twice; no token was longer
\* than the time its stave had left; the queue holds a stave with the
\* time it has left, which is not 0; the counter of each Beams is the
\* time its stave has left; and once the loop has ended the queue is
\* empty and every stave with markings has no time left.
CountersInStep ==
    /\ ~panicked
    /\ \A i, j \in 1 .. Len(engraver.pq) :
          engraver.pq[i].stave = engraver.pq[j].stave => i = j
    /\ \A k \in 1 .. Len(engraver.tokens) :
          engraver.tokens[k].dur <= engraver.tokens[k].time
    /\ \A i \in 1 .. Len(engraver.pq) :
          /\ engraver.pq[i].time = Remaining(engraver.pq[i].stave)
          /\ engraver.pq[i].time \in 1 .. Whole
    /\ \A st \in 0 .. Len(beams) - 1 : beams[st + 1].dur = Remaining(st)
    /\ engraver.phase # "tokens" =>
          /\ engraver.pq = <<>>
          /\ \A st \in 0 .. Len(EngravedChannels) - 1 :
                EngravedChannels[st + 1] # <<>> => Remaining(st) = 0

-----------------------------------------------------------------------------
(* Program::set_dur on an empty measure (Spec) *)

\* C39: a duration key pressed with the cursor on the implicit whole rest
\* of an empty channel writes rests that total exactly the duration asked:
\* a rest at the cursor and, when the duration is longer than a measure,
\* continuation rests at the start of the following measures.
C39_WholeDurationWritten ==
    [][(last'.op = "set_dur" /\ last'.kind = "whole" /\ ~panicked') =>
          \E k \in 0 .. 3 :
              /\ \A j \in 1 .. k + 1 :
                    /\ Pieces(scof', cursor', k)[j] # None
                    /\ IsNote(Pieces(scof', cursor', k)[j])
                    /\ Pieces(scof', cursor', k)[j].pitch = <<>>
              /\ RatEq(RatTotal(Pieces(scof', cursor', k)), last'.dur)]_vars

-----------------------------------------------------------------------------
(* Termination of notate_pitch and notate_rest of score2svg (SpecSvg) *)

\* C40: for every duration of 1 to 512 128ths, notate_pitch and
\* notate_rest return, without a panic; every chunk they add to the
\* measure has a duration that is not 0, and when they return the chunks
\* sum to the duration.
C40_NotateTerminates ==
    /\ [](/\ ~panicked
          /\ \A k \in 1 .. Len(last.chunks) : last.chunks[k] # 0
          /\ last.op = "done" =>
                SumDur([k \in 1 .. Len(last.chunks) |-> [dur |-> last.chunks[k]]]) = last.asked)
    /\ <>(last.op = "done")

====
